---- MODULE Spec2Model ----
(***************************************************************************)
(* A model of the RTK mediation pipeline of src/src/rtk_positioning.py:    *)
(* the RTCM-3 framer and the NTRIP -> serial bridge, the NMEA-0183 parser  *)
(* and the serial -> mediator path, and the GGA keep-alive supervisor.     *)
(*                                                                         *)
(* Bytes are integers 0..255.  Text is a sequence of one-character         *)
(* strings.  Python floats are modelled as exact decimal fixed-point       *)
(* numbers (an integer mantissa and a power-of-ten scale), so rounding in  *)
(* the last binary digit is not represented.                               *)
(***************************************************************************)
EXTENDS Integers, Sequences, FiniteSets, TLC

VARIABLES
    \* ---- caster -> mediator -> receiver (RTCM downstream path)
    wire,            \* bytes the caster has sent that recv() has not returned yet
    nSent,           \* number of pieces the caster has sent
    lastPiece,       \* the piece the caster sent last
    ntripIn,         \* every byte handed to _on_ntrip_data so far, in order
    serialOut,       \* every byte written to the serial port so far, in order
    linkOk,          \* every call so far found the port open and its write succeeded
    serialConfigured,    \* RTKPositioningSystem.serial_comm is not None
    serial_is_connected, \* SerialCommunicator.is_connected
    buffer,          \* RTCMParser.buffer
    rtcm_stats,      \* RTKPositioningSystem.rtcm_stats
    lastMsgs,        \* the list the last parse_message call returned
    lastEvents,      \* what the last _on_ntrip_data call did, in order
    parserIn,        \* every byte handed to parse_message so far, in order
    baseFixes,       \* base-kind fixes handed to the position sink
    portFaulty,      \* the serial device is gone: serial_conn.write raises
    \* ---- receiver -> mediator -> caster (NMEA upstream path)
    now,             \* the clock: time.time() and datetime.now()
    nmea_buffer,     \* RTKPositioningSystem.nmea_buffer
    position,        \* NMEAParser.position, the rolling fix
    current_position,    \* RTKPositioningSystem.current_position
    last_gga_time,   \* RTKPositioningSystem.last_gga_time
    enabled_messages,    \* NMEAParser.enabled_messages
    ntrip_is_connected,  \* NTRIPClient.is_connected
    current_is_rolling,  \* current_position is the parser's rolling object
    lastLines,       \* what the last call did with each sentence, in order
    \* ---- the supervisor (_monitor_loop)
    wakeAt,          \* when the supervisor's sleep ends
    lastTick,        \* what the last supervisor tick saw and wrote
    ggaArrivedAt,    \* when the receiver last delivered a GGA sentence
    received,        \* sentences the receiver has delivered to the running mediator
    \* ---- configuration and lifecycle (start, stop and the three tasks)
    filterList,      \* the list last given to the constructor or to the filter
    ntripKind,       \* ntrip_client: "none", "real" (NTRIPClient) or "mock"
    is_running,      \* RTKPositioningSystem.is_running
    started,         \* start() has been called
    quiet,           \* a stop() has returned and start() was not called since
    caller,          \* where the caller of start() and stop() is
    serial_conn,     \* SerialCommunicator.serial_conn: "none", "open" or "closed"
    socket,          \* NTRIPClient.socket: "none", "open" or "closed"
    serial_stop_event,   \* SerialCommunicator.stop_event
    ntrip_stop_event,    \* NTRIPClient.stop_event
    monitor_stop_event,  \* RTKPositioningSystem.monitor_stop_event
    read_thread,     \* SerialCommunicator.read_thread: "none", "alive", "finished"
    receive_thread,  \* NTRIPClient.receive_thread: "none", "testing" (at the loop
                     \* test), "receiving" (blocked in recv) or "finished"
    mock_thread,     \* MockNTRIPClient.mock_thread: "none", "alive", "finished"
    monitor_thread,  \* RTKPositioningSystem.monitor_thread, likewise
    joinLeft,        \* what is left of the timeout of the join the caller is in
    stopTicks,       \* how long the stop() in progress, or the last one, has taken
    sleepLeft,       \* what is left of the supervisor's sleep
    recvLeft,        \* what is left of the socket timeout of the pending recv
    lastSerialIo,    \* how the serial reader's last I/O ended
    lastNtripIo,     \* how the NTRIP receiver's last recv ended
    lifeLog,         \* the steps of the last start() or stop(), in order
    startResult,     \* what the last start() returned
    raised,          \* a call of start() or stop() raised an exception
    \* ---- the position sink (PositionHandler)
    enable_gui,      \* PositionHandler.visualizer is not None
    sink_log,        \* the records written to the log file, in order
    base_marker,     \* the base position last given to the visualizer
    track,           \* the fixes given to PositionVisualizer.update_position
    lastHandled,     \* the last call of handle_position and what it did
    \* ---- fix records as objects: who holds a reference to which
    heap,            \* the GPSPosition objects made so far, by number
    parser_position, \* NMEAParser.position: the number of the rolling fix
    mediator_current,    \* RTKPositioningSystem.current_position, likewise
    parsing,         \* the decoder the serial task is in: "idle", "RMC" or "GLL"
    assigning,       \* the field assignments that decoder has still to make
    emitted,         \* the objects handed out, each with its value at the time
    reader_ref,      \* what get_position() returned to the reader last (0: nothing)
    reader_copy,     \* the fields the reader read from it last
    completed,       \* the values the fix objects had after each complete update
    \* ---- coordinate conversion
    utm_in,          \* the (lat, lon) last given to wgs84_to_utm
    utm_out,         \* what utm_to_wgs84 returned for its result
    \* ---- the NTRIP handshake
    response,        \* what the first recv of NTRIPClient.connect returned
    connect_result,  \* what NTRIPClient.connect returned
    \* ---- the GGA uplink beside the receiver
    uplink_pc,       \* where each caller of send_gga is
    uplink_log,      \* the GGA lines written to the socket, with the flag at that time
    \* ---- tasks an earlier start() spawned that no attribute refers to any more
    orphan_readers,
    orphan_receivers,
    orphan_monitors,
    restarts,        \* calls of start() after the first
    \* ---- handlers and byte callbacks that raise
    faulty,          \* which registered handlers and byte callbacks raise
    fault_log        \* how each delivery to a byte callback ended

ntripVars == <<wire, nSent, lastPiece, ntripIn, serialOut, linkOk, serialConfigured,
               serial_is_connected, buffer, rtcm_stats, lastMsgs, lastEvents, parserIn,
               baseFixes, portFaulty>>

nmeaVars == <<now, nmea_buffer, position, current_position, last_gga_time,
              enabled_messages, ntrip_is_connected, current_is_rolling, lastLines>>

lifeVars == <<ntripKind, is_running, started, quiet, caller, serial_conn, socket,
              serial_stop_event, ntrip_stop_event, monitor_stop_event, read_thread,
              receive_thread, mock_thread, monitor_thread, joinLeft, stopTicks, sleepLeft,
              recvLeft,
              lastSerialIo, lastNtripIo, lifeLog, startResult, raised>>

monVars == <<wakeAt, lastTick, ggaArrivedAt, received>>

sinkVars == <<enable_gui, sink_log, base_marker, track, lastHandled>>

snapVars == <<heap, parser_position, mediator_current, parsing, assigning, emitted,
              reader_ref, reader_copy, completed>>

utmVars == <<utm_in, utm_out>>

handshakeVars == <<response, connect_result>>

uplinkVars == <<uplink_pc, uplink_log>>

orphanVars == <<orphan_readers, orphan_receivers, orphan_monitors, restarts>>

faultVars == <<faulty, fault_log>>

extVars == <<utmVars, handshakeVars, uplinkVars, orphanVars, faultVars>>

vars == <<ntripVars, nmeaVars, monVars, filterList, lifeVars, sinkVars, snapVars, extVars>>

-----------------------------------------------------------------------------
(* Bounds of the model *)

MaxPieces == 2

-----------------------------------------------------------------------------
(* Integer bit operations *)

\* a ^ b on one hexadecimal digit
XorNibble ==
    [a \in 0..15 |-> [b \in 0..15 |->
        ((a + b) % 2)
        + 2 * (((a \div 2) + (b \div 2)) % 2)
        + 4 * (((a \div 4) + (b \div 4)) % 2)
        + 8 * (((a \div 8) + (b \div 8)) % 2)]]

\* a ^ b on one byte
XorByte ==
    [a \in 0..255 |-> [b \in 0..255 |->
        XorNibble[a % 16][b % 16] + 16 * XorNibble[a \div 16][b \div 16]]]

\* a ^ b on non-negative integers
RECURSIVE BitXor(_, _)
BitXor(a, b) ==
    IF a = 0 THEN b
    ELSE IF b = 0 THEN a
    ELSE XorByte[a % 256][b % 256] + 256 * BitXor(a \div 256, b \div 256)

-----------------------------------------------------------------------------
(* RTCMParser.crc24 *)

Crc24Poly == 25578747       \* 0x1864CFB
Crc24Top == 8388608         \* 0x800000
Crc24Mod == 16777216        \* & 0xFFFFFF

\* the inner loop: for _ in range(8)
RECURSIVE Crc24Shift(_, _)
Crc24Shift(crc, n) ==
    IF n = 0 THEN crc
    ELSE LET shifted == IF (crc \div Crc24Top) % 2 = 1
                        THEN BitXor(crc * 2, Crc24Poly)
                        ELSE crc * 2
             next == shifted % Crc24Mod
         IN IF next >= 0 THEN Crc24Shift(next, n - 1) ELSE 0

\* the outer loop from byte i on: crc ^= byte << 16, then eight shifts
RECURSIVE Crc24From(_, _, _)
Crc24From(data, i, crc) ==
    IF i > Len(data) THEN crc
    ELSE LET next == Crc24Shift(BitXor(crc, data[i] * 65536), 8)
         IN IF next >= 0 THEN Crc24From(data, i + 1, next) ELSE 0

crc24(data) == Crc24From(data, 1, 0)

\* struct.unpack('>I', b'\x00' + message_data[-3:])[0]
UnpackCrc(message_data) ==
    LET n == Len(message_data)
    IN message_data[n - 2] * 65536 + message_data[n - 1] * 256 + message_data[n]

\* struct.pack('>I', crc)[1:]
PackCrc(crc) == <<(crc \div 65536) % 256, (crc \div 256) % 256, crc % 256>>

\* MockNTRIPClient._mock_loop builds a frame: header, payload, CRC-24Q
MakeFrame(payload) ==
    LET header_payload == <<211, Len(payload) \div 256, Len(payload) % 256>> \o payload
    IN header_payload \o PackCrc(crc24(header_payload))

-----------------------------------------------------------------------------
(* MockNTRIPClient._calculate_crc24 and the frame of _mock_loop *)

\* the inner loop of _calculate_crc24: for _ in range(8)
RECURSIVE MockCrcShift(_, _)
MockCrcShift(crc, n) ==
    IF n = 0 THEN crc
    ELSE LET next == (IF crc >= Crc24Top
                      THEN BitXor((crc * 2) % (2 * Crc24Mod), Crc24Poly)
                      ELSE crc * 2) % Crc24Mod
         IN IF next >= 0 THEN MockCrcShift(next, n - 1) ELSE 0

\* the outer loop from byte i on
RECURSIVE MockCrcFrom(_, _, _)
MockCrcFrom(data, i, crc) ==
    IF i > Len(data) THEN crc
    ELSE LET next == MockCrcShift(BitXor(crc, data[i] * 65536), 8)
         IN IF next >= 0 THEN MockCrcFrom(data, i + 1, next) ELSE 0

\* a checksum that leaves out the first byte
calculate_crc24_SkipFirst(data) == IF data = <<>> THEN 0 ELSE MockCrcFrom(Tail(data), 1, 0)

calculate_crc24(data) == MockCrcFrom(data, 1, 0)

\* header_payload = b'\xd3\x00\x04\xaa\xbb\xcc\xdd'
MockHeaderPayload == <<211, 0, 4, 170, 187, 204, 221>>

\* full_msg = header_payload + struct.pack('>I', crc)[1:]
MockFrame == MockHeaderPayload \o PackCrc(calculate_crc24(MockHeaderPayload))

-----------------------------------------------------------------------------
(* RTCMParser.parse_message *)

SyncByte == 211             \* 0xD3

\* for i in range(len(buffer)): if buffer[i] == 0xD3: start_idx = i; break
\* (1-based; 0 when there is none)
RECURSIVE FindSyncFrom(_, _)
FindSyncFrom(buf, i) ==
    IF i > Len(buf) THEN 0
    ELSE IF buf[i] = SyncByte THEN i
    ELSE FindSyncFrom(buf, i + 1)

\* a search that takes the first byte for the sync byte
FindSync_First(buf) == 1

FindSync(buf) == FindSyncFrom(buf, 1)

\* struct.unpack('>H', payload[:2])[0] >> 4
MessageType(payload) == (payload[1] * 256 + payload[2]) \div 16

\* ((buffer[1] & 0x03) << 8) | buffer[2]
FrameLength(buf) == (buf[2] % 4) * 256 + buf[3]

\* a framer that accepts every candidate frame
CrcMismatch_Never(message_data) == FALSE

\* received_crc != calculated_crc
CrcMismatch(message_data) ==
    UnpackCrc(message_data) /= crc24(SubSeq(message_data, 1, Len(message_data) - 3))

\* what the loop keeps of the buffer when the candidate frame fails its CRC
AfterCrcFailure(buf, total_length) == SubSeq(buf, total_length + 1, Len(buf))

\* The while loop of parse_message.  msgs is the list being returned; each
\* entry carries the fields of message_info and, as "frame", the wire bytes
\* (message_data) it was cut from.
RECURSIVE ParseLoop(_, _)
ParseLoop(buf, msgs) ==
    IF Len(buf) < 3 THEN [buffer |-> buf, messages |-> msgs]
    ELSE
      LET start_idx == FindSync(buf) IN
      IF start_idx = 0 THEN [buffer |-> <<>>, messages |-> msgs]
      ELSE
        LET b == SubSeq(buf, start_idx, Len(buf)) IN
        IF Len(b) < 6 THEN [buffer |-> b, messages |-> msgs]
        ELSE
          LET length == FrameLength(b)
              total_length == length + 6
          IN
          IF Len(b) < total_length THEN [buffer |-> b, messages |-> msgs]
          ELSE
            LET message_data == SubSeq(b, 1, total_length)
                rest == SubSeq(b, total_length + 1, Len(b))
                payload == SubSeq(message_data, 4, total_length - 3)
            IN
            IF CrcMismatch(message_data)
            THEN ParseLoop(AfterCrcFailure(b, total_length), msgs)
            ELSE IF Len(payload) >= 2
            THEN ParseLoop(rest, Append(msgs, [type |-> MessageType(payload),
                                               length |-> length,
                                               data |-> payload,
                                               frame |-> message_data]))
            ELSE ParseLoop(rest, msgs)

\* a parser that starts every call with an empty accumulator
parse_message_Fresh(buf, data) == ParseLoop(data, <<>>)

\* parse_message(data): self.buffer.extend(data), then the loop
parse_message(buf, data) == ParseLoop(buf \o data, <<>>)

-----------------------------------------------------------------------------
(* RTKPositioningSystem._on_rtcm_1005 *)

\* bit k (0-based, most significant first) of the payload
PayloadBit(payload, k) == (payload[(k \div 8) + 1] \div (2 ^ (7 - (k % 8)))) % 2

\* get_bits(start_bit, length), as the sequence of its bits, most significant
\* first.  (bits_val >> shift) raises ValueError for a negative shift, that
\* is when the payload has fewer than start_bit + length bits.
GetBits(payload, start_bit, length) ==
    [i \in 1..length |-> PayloadBit(payload, start_bit + i - 1)]

\* the handler returns early on an empty payload and swallows the ValueError
\* of a short one; otherwise it builds one base-kind fix from the three ECEF
\* fields at bit offsets 34, 74 and 114 and hands it to the position sink
On1005(message, fixes) ==
    IF Len(message.data) * 8 < 114 + 38 THEN fixes
    ELSE Append(fixes, [type |-> "BASE",
                        fix_quality |-> 8,
                        x_bits |-> GetBits(message.data, 34, 38),
                        y_bits |-> GetBits(message.data, 74, 38),
                        z_bits |-> GetBits(message.data, 114, 38)])

\* the callbacks parse_message invokes for the messages it surfaced: 1005 is
\* decoded, 1077 is only logged
RECURSIVE RunRtcmCallbacks(_, _, _)
RunRtcmCallbacks(msgs, i, fixes) ==
    IF i > Len(msgs) THEN fixes
    ELSE RunRtcmCallbacks(msgs, i + 1,
            IF msgs[i].type = 1005 THEN On1005(msgs[i], fixes) ELSE fixes)

-----------------------------------------------------------------------------
(* SerialCommunicator.send_data and RTKPositioningSystem._on_ntrip_data *)

\* send_data: refused when the port is not connected; otherwise the write
\* completes, or raises when the device is gone
send_data ==
    IF ~serial_is_connected THEN "send_refused"
    ELSE IF portFaulty THEN "send_error" ELSE "send_ok"

\* a bridge that forwards the frames the parser accepted instead of the chunk
RECURSIVE FramesOf(_, _)
FramesOf(msgs, i) == IF i > Len(msgs) THEN <<>> ELSE msgs[i].frame \o FramesOf(msgs, i + 1)

BytesToPort_Reframed(data, msgs) == FramesOf(msgs, 1)

\* what reaches the port: serial_conn.write(data) gets the chunk as received
BytesToPort(data, msgs) == data

\* a bridge that gives up on the chunk when the forward failed
NtripDataSteps_ReturnOnFailure(sendEvent) ==
    IF sendEvent = "send_ok" THEN <<sendEvent, "parse">> ELSE <<sendEvent>>

\* the statements of _on_ntrip_data in the order they run: the forward to
\* the serial endpoint (or the warning that none is configured), then
\* parse_message
NtripDataSteps(sendEvent) == <<sendEvent, "parse">>

\* self.rtcm_stats[msg_type] = self.rtcm_stats.get(msg_type, 0) + 1,
\* for every returned message whose type is non-zero
RECURSIVE CountMessages(_, _, _)
CountMessages(msgs, i, stats) ==
    IF i > Len(msgs) THEN stats
    ELSE LET t == msgs[i].type IN
         CountMessages(msgs, i + 1,
            IF t = 0 THEN stats
            ELSE [k \in DOMAIN stats \cup {t} |->
                    IF k = t THEN (IF t \in DOMAIN stats THEN stats[t] ELSE 0) + 1
                    ELSE stats[k]])

OnNtripData(data) ==
    LET sendEvent == IF serialConfigured THEN send_data ELSE "no_serial"
        steps == NtripDataSteps(sendEvent)
        fed == \E i \in 1..Len(steps) : steps[i] = "parse"
        r == IF fed THEN parse_message(buffer, data)
             ELSE [buffer |-> buffer, messages |-> <<>>]
    IN /\ ntripIn' = ntripIn \o data
       /\ lastEvents' = steps
       /\ serialOut' = IF sendEvent = "send_ok"
                       THEN serialOut \o BytesToPort(data, r.messages)
                       ELSE serialOut
       /\ linkOk' = (linkOk /\ sendEvent = "send_ok")
       /\ parserIn' = IF fed THEN parserIn \o data ELSE parserIn
       /\ buffer' = r.buffer
       /\ lastMsgs' = r.messages
       /\ baseFixes' = RunRtcmCallbacks(r.messages, 1, baseFixes)
       /\ rtcm_stats' = CountMessages(r.messages, 1, rtcm_stats)

-----------------------------------------------------------------------------
(* The caster's byte stream *)

Payload1077 == <<67, 80>>           \* type 1077, no body
\* type 1005, station 1, ECEF (-2177800, 4388300, 4069700) m
Payload1005 == <<62, 208, 1, 2, 58, 237, 238, 23, 128, 10, 55, 161, 112, 192, 9,
                 121, 186, 240, 64>>

Frame1077 == MakeFrame(Payload1077)
Frame1005 == MakeFrame(Payload1005)
\* a frame whose last CRC byte was damaged in transit
CorruptFrame == [Frame1077 EXCEPT ![Len(Frame1077)] = (@ + 1) % 256]
\* garbage: a byte that is no sync byte, a lone sync byte, and a sync byte
\* followed by a zero length (its six-byte candidate reaches into what follows)
Garbage == <<170>>
LoneSync == <<211>>
FalseSync == <<211, 0, 0>>

ValidFrames == {Frame1077}
Pieces == ValidFrames \cup {CorruptFrame, Garbage, LoneSync, FalseSync}


-----------------------------------------------------------------------------
(* Text: str operations used by the NMEA path *)

\* the printable ASCII characters, in code order from 32 (space) to 126
\* (the double quote, the backslash and the backtick are written out by name)
Ascii ==
    <<" ", "!", "<quote>", "#", "$", "%", "&", "'", "(", ")", "*", "+", ",", "-", ".", "/",
      "0", "1", "2", "3", "4", "5", "6", "7", "8", "9", ":", ";", "<", "=", ">", "?",
      "@", "A", "B", "C", "D", "E", "F", "G", "H", "I", "J", "K", "L", "M", "N", "O",
      "P", "Q", "R", "S", "T", "U", "V", "W", "X", "Y", "Z", "[", "<backslash>", "]", "^", "_",
      "<backtick>", "a", "b", "c", "d", "e", "f", "g", "h", "i", "j", "k", "l", "m", "n", "o",
      "p", "q", "r", "s", "t", "u", "v", "w", "x", "y", "z", "{", "|", "}", "~">>

\* U+FFFD, what decode('ascii', errors='replace') puts for a byte above 127
Replacement == "<U+FFFD>"
\* a byte above 127 as it arrives on the serial line
HighByte == "<0x80>"

\* ord(char)
Ord ==
    [c \in {Ascii[i] : i \in 1..Len(Ascii)} \cup {"\t", "\n", "\r", Replacement} |->
        IF c = "\t" THEN 9
        ELSE IF c = "\n" THEN 10
        ELSE IF c = "\r" THEN 13
        ELSE IF c = Replacement THEN 65533
        ELSE 31 + (CHOOSE i \in 1..Len(Ascii) : Ascii[i] = c)]

\* bytes.decode('ascii', errors='replace')
DecodeAscii(data) == [i \in 1..Len(data) |-> IF data[i] = HighByte THEN Replacement ELSE data[i]]

\* the characters str.strip() removes
Whitespace == {" ", "\t", "\n", "\r"}

RECURSIVE LStrip(_)
LStrip(s) == IF s /= <<>> /\ Head(s) \in Whitespace THEN LStrip(Tail(s)) ELSE s

RECURSIVE RStrip(_)
RStrip(s) ==
    IF s /= <<>> /\ s[Len(s)] \in Whitespace THEN RStrip(SubSeq(s, 1, Len(s) - 1)) ELSE s

\* str.strip()
Strip(s) == RStrip(LStrip(s))

\* str.find(c), 1-based; 0 when c does not occur
\* the least index from i on that holds c
FindFrom(s, c, i) ==
    IF \E k \in i..Len(s) : s[k] = c
    THEN CHOOSE k \in i..Len(s) : s[k] = c /\ \A j \in i..(k - 1) : s[j] /= c
    ELSE 0

Find(s, c) == FindFrom(s, c, 1)

\* str.split(c)
RECURSIVE Split(_, _)
Split(s, c) ==
    LET k == Find(s, c) IN
    IF k = 0 THEN <<s>>
    ELSE <<SubSeq(s, 1, k - 1)>> \o Split(SubSeq(s, k + 1, Len(s)), c)

\* the slice s[a:b] of Python, 0-based and clipped to the string
Slice(s, a, b) == SubSeq(s, a + 1, IF b < Len(s) THEN b ELSE Len(s))

\* str.upper() on one character
Upper(c) ==
    IF c \in DOMAIN Ord /\ Ord[c] >= 97 /\ Ord[c] <= 122 THEN Ascii[Ord[c] - 32 - 31] ELSE c

HexDigits == <<"0", "1", "2", "3", "4", "5", "6", "7", "8", "9", "A", "B", "C", "D", "E", "F">>

\* f"{n:02X}": upper-case hexadecimal, at least two digits
RECURSIVE HexOf(_)
HexOf(n) == IF n < 16 THEN <<HexDigits[n + 1]>> ELSE HexOf(n \div 16) \o <<HexDigits[(n % 16) + 1]>>

Hex02X(n) == IF n < 16 THEN <<"0">> \o HexOf(n) ELSE HexOf(n)

\* ','.join(fields)
RECURSIVE Join(_, _)
Join(fields, i) ==
    IF i > Len(fields) THEN <<>>
    ELSE IF i = Len(fields) THEN fields[i]
    ELSE fields[i] \o <<",">> \o Join(fields, i + 1)

-----------------------------------------------------------------------------
(* Numbers: int() and float() of a field, and decimal arithmetic.           *)
(* A float is kept as the exact decimal m / 10^e with m not divisible by    *)
(* ten unless e = 0, so that equal numbers are equal records.               *)

Digits == {"0", "1", "2", "3", "4", "5", "6", "7", "8", "9"}

RECURSIVE Pow10(_)
Pow10(e) == IF e = 0 THEN 1 ELSE 10 * Pow10(e - 1)

RECURSIVE Dec(_, _)
Dec(m, e) == IF e > 0 /\ m % 10 = 0 THEN Dec(m \div 10, e - 1) ELSE [m |-> m, e |-> e]

DecZero == [m |-> 0, e |-> 0]

AllDigits(s) == \A i \in 1..Len(s) : s[i] \in Digits

\* the value of a string of digits
RECURSIVE DigitsValue(_)
DigitsValue(s) ==
    IF s = <<>> THEN 0 ELSE 10 * DigitsValue(SubSeq(s, 1, Len(s) - 1)) + (Ord[s[Len(s)]] - 48)

\* the sign of a numeric literal and the text after it
Unsigned(s) == IF s /= <<>> /\ Head(s) \in {"-", "+"} THEN Tail(s) ELSE s
SignOf(s) == IF s /= <<>> /\ Head(s) = "-" THEN -1 ELSE 1

\* int(t) for a stripped t: an optional sign and decimal digits; anything
\* else raises ValueError (ok = FALSE)
IntOfText(t) ==
    IF Unsigned(t) /= <<>> /\ AllDigits(Unsigned(t))
    THEN [ok |-> TRUE, v |-> SignOf(t) * DigitsValue(Unsigned(t))]
    ELSE [ok |-> FALSE, v |-> 0]

\* int(s): surrounding whitespace is ignored
ParseInt(s) == IntOfText(Strip(s))

\* the digits before and after the decimal point
BeforePoint(t) == IF Find(t, ".") = 0 THEN t ELSE SubSeq(t, 1, Find(t, ".") - 1)
AfterPoint(t) == IF Find(t, ".") = 0 THEN <<>> ELSE SubSeq(t, Find(t, ".") + 1, Len(t))

\* float of a decimal literal: digits with at most one point and at least
\* one digit; anything else raises ValueError
FloatOfParts(sign, ip, fp) ==
    IF AllDigits(ip) /\ AllDigits(fp) /\ Len(ip) + Len(fp) > 0
    THEN [ok |-> TRUE, v |-> Dec(sign * DigitsValue(ip \o fp), Len(fp))]
    ELSE [ok |-> FALSE, v |-> DecZero]

FloatOfText(t) == FloatOfParts(SignOf(t), BeforePoint(Unsigned(t)), AfterPoint(Unsigned(t)))

\* float(s) for decimal literals: surrounding whitespace is ignored
ParseFloat(s) == FloatOfText(Strip(s))

\* int(x) of a float: truncation towards zero
DecTrunc(x) ==
    IF x.m >= 0 THEN x.m \div Pow10(x.e) ELSE -((-x.m) \div Pow10(x.e))

DecOfInt(n) == [m |-> n, e |-> 0]
DecNeg(x) == [m |-> -x.m, e |-> x.e]

\* x - y
DecSub(x, y) ==
    LET e == IF x.e > y.e THEN x.e ELSE y.e
    IN Dec(x.m * Pow10(e - x.e) - y.m * Pow10(e - y.e), e)

\* x * y
DecMul(x, y) == Dec(x.m * y.m, x.e + y.e)

-----------------------------------------------------------------------------
(* GPSPosition and the NMEA field decoders of NMEAParser.                   *)
(* latitude and longitude hold the angle in arc-minutes (sixtieths of a     *)
(* degree), so that degrees + minutes / 60 is exact.  A timestamp is a      *)
(* record: the clock reading of datetime.now(), today's date with a time    *)
(* of day, or a full date and time.                                         *)

TimeNow(clock) == [kind |-> "now", at |-> clock]
TimeToday(h, mi, sec) == [kind |-> "today", hour |-> h, minute |-> mi, second |-> sec]
TimeFull(y, mo, d, h, mi, sec) ==
    [kind |-> "date", year |-> y, month |-> mo, day |-> d,
     hour |-> h, minute |-> mi, second |-> sec]

\* GPSPosition(...) with its defaults; __post_init__ stamps datetime.now()
\* when no timestamp is given
GPSPosition(ts) ==
    [latitude |-> DecZero, longitude |-> DecZero, altitude |-> DecZero,
     fix_quality |-> 0, satellites_used |-> 0, hdop |-> DecZero, timestamp |-> ts,
     speed |-> DecZero, course |-> DecZero, age |-> DecZero, stn_id |-> 0,
     type |-> "ROVER"]

\* the divisor that turns the minutes of ddmm.mmmm into a fraction of a degree
MinutesPerDegree == 60

\* degrees * 60 + minutes, where minutes = coord - degrees * 100
ArcMinutes(coord, degrees) ==
    DecSub(DecOfInt(degrees * MinutesPerDegree),
           DecNeg(DecSub(coord, DecOfInt(degrees * 100))))

\* the angle of a parsed ddmm.mmmm value, negated for S and W; 0.0 when
\* float() raised ValueError
CoordinateOf(f, direction) ==
    IF ~f.ok THEN DecZero
    ELSE IF direction \in {<<"S">>, <<"W">>}
    THEN DecNeg(ArcMinutes(f.v, DecTrunc(Dec(f.v.m, f.v.e + 2))))
    ELSE ArcMinutes(f.v, DecTrunc(Dec(f.v.m, f.v.e + 2)))

\* a conversion that ignores the hemisphere
parse_coordinate_Unsigned(coord_str, direction) ==
    IF coord_str = <<>> \/ direction = <<>> THEN DecZero
    ELSE CoordinateOf(ParseFloat(coord_str), <<"N">>)

\* parse_coordinate: degrees = int(coord / 100), minutes = coord - degrees * 100,
\* degrees + minutes / 60, negated for S and W; 0.0 for an empty or
\* unparsable field.  In arc-minutes: degrees * 60 + minutes.
parse_coordinate(coord_str, direction) ==
    IF coord_str = <<>> \/ direction = <<>> THEN DecZero
    ELSE CoordinateOf(ParseFloat(coord_str), direction)

\* hour, minute and second checked as datetime checks them
TimeOfParts(h, mi, sec) ==
    [ok |-> /\ h.ok /\ mi.ok /\ sec.ok
            /\ h.v >= 0 /\ h.v <= 23 /\ mi.v >= 0 /\ mi.v <= 59
            /\ DecTrunc(sec.v) >= 0 /\ DecTrunc(sec.v) <= 59,
     hour |-> h.v, minute |-> mi.v, second |-> DecTrunc(sec.v)]

\* hour, minute, second of an hhmmss[.ss] field: int(t[:2]), int(t[2:4]),
\* int(float(t[4:])); ok is FALSE where Python raises ValueError, in the
\* conversions or in datetime's range checks
TimeOfDay(time_str) ==
    TimeOfParts(ParseInt(Slice(time_str, 0, 2)), ParseInt(Slice(time_str, 2, 4)),
                ParseFloat(Slice(time_str, 4, Len(time_str))))

StampToday(tod) == [ok |-> tod.ok, ts |-> TimeToday(tod.hour, tod.minute, tod.second)]

\* the timestamp of a GGA or GLL: today's date with the time of day of the
\* field, or datetime.now() when the field is empty
TimeField(time_str, clock) ==
    IF time_str /= <<>> THEN StampToday(TimeOfDay(time_str))
    ELSE [ok |-> TRUE, ts |-> TimeNow(clock)]

\* int(field) if field else 0, float(field) if field else 0.0
IntField(f) == IF f = <<>> THEN [ok |-> TRUE, v |-> 0] ELSE ParseInt(f)
FloatField(f) == IF f = <<>> THEN [ok |-> TRUE, v |-> DecZero] ELSE ParseFloat(f)

\* FixQuality(quality) if quality <= 8 else FixQuality.INVALID; the enum
\* constructor raises ValueError below 0
MaxFixQuality == 8

\* the GPSPosition parse_gga builds from its converted fields; ok = FALSE
\* where a conversion raised ValueError
GgaOf(t, lat, lon, quality, satellites, hdop, altitude, age, stn_id) ==
    [ok |-> /\ t.ok /\ quality.ok /\ quality.v >= 0 /\ satellites.ok /\ hdop.ok
            /\ altitude.ok /\ age.ok /\ stn_id.ok,
     fix |-> [GPSPosition(t.ts) EXCEPT
                !.latitude = lat,
                !.longitude = lon,
                !.altitude = altitude.v,
                !.fix_quality = IF quality.v <= MaxFixQuality THEN quality.v ELSE 0,
                !.satellites_used = satellites.v,
                !.hdop = hdop.v,
                !.age = age.v,
                !.stn_id = stn_id.v]]

\* the try block of parse_gga
GgaFix(fields, clock) ==
    GgaOf(TimeField(fields[2], clock),
          parse_coordinate(fields[3], fields[4]),
          parse_coordinate(fields[5], fields[6]),
          IntField(fields[7]), IntField(fields[8]), FloatField(fields[9]),
          FloatField(fields[10]), FloatField(fields[14]), IntField(fields[15]))

\* the rolling fix stays the object it was
Kept(pos) == [fix |-> pos, fresh |-> FALSE]

GgaOutcome(pos, g) == IF g.ok THEN [fix |-> g.fix, fresh |-> TRUE] ELSE Kept(pos)

\* parse_gga: a new GPSPosition replaces the rolling fix; any ValueError
\* leaves the rolling fix as it was.  fix is the value returned (the rolling
\* fix afterwards), fresh tells that it is a newly built object.
parse_gga(pos, fields, clock) ==
    IF Len(fields) < 15 THEN Kept(pos) ELSE GgaOutcome(pos, GgaFix(fields, clock))

\* knots to km/h
KnotsToKmh == [m |-> 1852, e |-> 3]

\* the century parse_rmc adds to the two-digit year
RmcCentury == 2000

DaysInMonth(year, month) ==
    IF month \in {4, 6, 9, 11} THEN 30
    ELSE IF month /= 2 THEN 31
    ELSE IF year % 4 = 0 /\ (year % 100 /= 0 \/ year % 400 = 0) THEN 29 ELSE 28

\* the range checks of datetime(year, month, day, ...)
ValidDate(year, month, day) ==
    /\ year >= 1 /\ month >= 1 /\ month <= 12
    /\ day >= 1 /\ day <= DaysInMonth(year, month)

\* datetime(2000 + yy, mm, dd, hh, mm, ss)
RmcDateOf(day, month, yy, tod) ==
    [ok |-> /\ day.ok /\ month.ok /\ yy.ok /\ tod.ok
            /\ ValidDate(RmcCentury + yy.v, month.v, day.v),
     ts |-> TimeFull(RmcCentury + yy.v, month.v, day.v, tod.hour, tod.minute, tod.second)]

\* the timestamp of an RMC: the date of the ddmmyy field with the time of
\* day, or datetime.now() when the date or the time field is empty
RmcTimestamp(date_str, time_str, clock) ==
    IF date_str = <<>> \/ time_str = <<>> THEN [ok |-> TRUE, ts |-> TimeNow(clock)]
    ELSE RmcDateOf(ParseInt(Slice(date_str, 0, 2)), ParseInt(Slice(date_str, 2, 4)),
                   ParseInt(Slice(date_str, 4, 6)), TimeOfDay(time_str))

\* an RMC that starts a new fix, as a GGA does
RmcUpdate_FreshFix(pos, lat, lon, speed, course, timestamp) ==
    [GPSPosition(timestamp) EXCEPT !.latitude = lat, !.longitude = lon, !.speed = speed,
                                   !.course = course]

\* the fields of the rolling fix parse_rmc assigns
RmcUpdate(pos, lat, lon, speed, course, timestamp) ==
    [pos EXCEPT !.latitude = lat, !.longitude = lon, !.speed = speed,
                !.course = course, !.timestamp = timestamp]

\* the try block of parse_rmc after the status test: any ValueError leaves
\* the rolling fix as it was
RmcMerge(pos, lat, lon, knots, course, t) ==
    IF knots.ok /\ course.ok /\ t.ok
    THEN RmcUpdate(pos, lat, lon, DecMul(knots.v, KnotsToKmh), course.v, t.ts)
    ELSE pos

\* parse_rmc: status other than 'A' returns the rolling fix as it is;
\* otherwise position, speed, course and timestamp are assigned in place
parse_rmc(pos, fields, clock) ==
    IF Len(fields) < 12 THEN pos
    ELSE IF fields[3] /= <<"A">> THEN pos
    ELSE RmcMerge(pos,
                  parse_coordinate(fields[4], fields[5]),
                  parse_coordinate(fields[6], fields[7]),
                  FloatField(fields[8]), FloatField(fields[9]),
                  RmcTimestamp(fields[10], fields[2], clock))

\* the assignments of parse_gll
GllMerge(pos, lat, lon, t, status) ==
    IF t.ok
    THEN [pos EXCEPT !.latitude = lat, !.longitude = lon, !.timestamp = t.ts,
                     !.fix_quality = IF status = <<"A">> THEN 1 ELSE 0]
    ELSE pos

\* parse_gll: position, time of day and validity are assigned in place
parse_gll(pos, fields, clock) ==
    IF Len(fields) < 7 THEN pos
    ELSE GllMerge(pos,
                  parse_coordinate(fields[2], fields[3]),
                  parse_coordinate(fields[4], fields[5]),
                  TimeField(fields[6], clock), fields[7])

-----------------------------------------------------------------------------
(* NMEAParser.calculate_checksum and validate_checksum *)

RECURSIVE XorChars(_, _, _)
XorChars(s, i, checksum) ==
    IF i > Len(s) THEN checksum
    ELSE LET next == BitXor(checksum, Ord[s[i]])
         IN IF next >= 0 THEN XorChars(s, i + 1, next) ELSE 0

calculate_checksum(sentence) == Hex02X(XorChars(sentence, 1, 0))

\* a validator that only looks at the shape of the checksum
validate_checksum_ShapeOnly(sentence) ==
    /\ Len(sentence) >= 8
    /\ Find(sentence, "*") /= 0
    /\ Len(sentence) - Find(sentence, "*") = 2

ChecksumMatches(data, checksum) ==
    IF Len(checksum) /= 2 THEN FALSE
    ELSE calculate_checksum(Slice(data, 1, Len(data)))
           = <<Upper(checksum[1]), Upper(checksum[2])>>

\* data, checksum = sentence.split('*', 1), with the first '*' at k
SplitAtStar(sentence, k) ==
    ChecksumMatches(SubSeq(sentence, 1, k - 1), SubSeq(sentence, k + 1, Len(sentence)))

validate_checksum(sentence) ==
    IF Len(sentence) < 8 THEN FALSE
    ELSE IF Find(sentence, "*") = 0 THEN FALSE
    ELSE SplitAtStar(sentence, Find(sentence, "*"))

-----------------------------------------------------------------------------
(* NMEAParser.parse_sentence and the mediator's NMEA handlers.              *)
(* The handlers act on the mediator; w carries what they read and write:    *)
(* the rolling fix, last_gga_time, and for the sentence at hand the         *)
(* handlers that ran, the fixes handed to the position sink and the lines   *)
(* written to the NTRIP socket.                                             *)

GGA == <<"G", "G", "A">>
RMC == <<"R", "M", "C">>
GLL == <<"G", "L", "L">>

CRLF == <<"\r", "\n">>

\* GPGGA,123519,4807.038,N,01131.000,E,1,08,0.9,545.4,M,46.9,M,,
GgaSeedBody ==
    <<"G", "P", "G", "G", "A", ",", "1", "2", "3", "5", "1", "9", ",", "4", "8", "0", "7",
      ".", "0", "3", "8", ",", "N", ",", "0", "1", "1", "3", "1", ".", "0", "0", "0", ",",
      "E", ",", "1", ",", "0", "8", ",", "0", ".", "9", ",", "5", "4", "5", ".", "4", ",",
      "M", ",", "4", "6", ".", "9", ",", "M", ",", ",">>

\* GPRMC,123519,A,4807.038,N,01131.000,E,022.4,084.4,230394,003.1,W
RmcSeedBody ==
    <<"G", "P", "R", "M", "C", ",", "1", "2", "3", "5", "1", "9", ",", "A", ",", "4", "8",
      "0", "7", ".", "0", "3", "8", ",", "N", ",", "0", "1", "1", "3", "1", ".", "0", "0",
      "0", ",", "E", ",", "0", "2", "2", ".", "4", ",", "0", "8", "4", ".", "4", ",", "2",
      "3", "0", "3", "9", "4", ",", "0", "0", "3", ".", "1", ",", "W">>

\* GPRMC,123520,V,4807.100,N,01131.200,E,010.0,090.0,230394,003.1,W
RmcVoidBody ==
    <<"G", "P", "R", "M", "C", ",", "1", "2", "3", "5", "2", "0", ",", "V", ",", "4", "8",
      "0", "7", ".", "1", "0", "0", ",", "N", ",", "0", "1", "1", "3", "1", ".", "2", "0",
      "0", ",", "E", ",", "0", "1", "0", ".", "0", ",", "0", "9", "0", ".", "0", ",", "2",
      "3", "0", "3", "9", "4", ",", "0", "0", "3", ".", "1", ",", "W">>

\* GNGGA,010203.50,3346.500,S,07030.250,W,4,12,1.2,20.5,M,30.0,M,1.5,0123
GgaRtkBody ==
    <<"G", "N", "G", "G", "A", ",", "0", "1", "0", "2", "0", "3", ".", "5", "0", ",", "3",
      "3", "4", "6", ".", "5", "0", "0", ",", "S", ",", "0", "7", "0", "3", "0", ".", "2",
      "5", "0", ",", "W", ",", "4", ",", "1", "2", ",", "1", ".", "2", ",", "2", "0", ".",
      "5", ",", "M", ",", "3", "0", ".", "0", ",", "M", ",", "1", ".", "5", ",", "0", "1",
      "2", "3">>

\* GPGGA,123521,4807.040,N,01131.002,E,0,00,0.0,0.0,M,0.0,M,,
GgaInvalidBody ==
    <<"G", "P", "G", "G", "A", ",", "1", "2", "3", "5", "2", "1", ",", "4", "8", "0", "7",
      ".", "0", "4", "0", ",", "N", ",", "0", "1", "1", "3", "1", ".", "0", "0", "2", ",",
      "E", ",", "0", ",", "0", "0", ",", "0", ".", "0", ",", "0", ".", "0", ",", "M", ",",
      "0", ".", "0", ",", "M", ",", ",">>

\* GNGLL,4807.050,N,01131.010,E,123522,A,A
GllBody ==
    <<"G", "N", "G", "L", "L", ",", "4", "8", "0", "7", ".", "0", "5", "0", ",", "N", ",",
      "0", "1", "1", "3", "1", ".", "0", "1", "0", ",", "E", ",", "1", "2", "3", "5", "2",
      "2", ",", "A", ",", "A">>

\* self.default_gga
default_gga ==
    <<"$", "G", "P", "G", "G", "A", ",", "0", "6", "5", "9", "5", "6", ".", "6", "0", ",",
      "3", "0", "1", "3", ".", "3", "6", "1", "4", "9", "5", "5", ",", "N", ",", "1", "2",
      "0", "2", "1", ".", "3", "0", "7", "6", "0", "6", "2", ",", "E", ",", "1", ",", "2",
      "5", ",", "0", ".", "8", ",", "7", ".", "7", "1", "7", "5", ",", "M", ",", "7", ".",
      "9", "5", "3", ",", "M", ",", ",", "*", "6", "9">>

\* NTRIPClient.send_gga: nothing is written unless the client is connected
send_gga(w, gga_sentence, connected) ==
    IF connected THEN [w EXCEPT !.uplink = Append(@, gga_sentence \o CRLF)] ELSE w

\* a handler that leaves last_gga_time alone
GgaStamp_Unstamped(w, clock) == w

\* when _on_gga_received stamps last_gga_time
GgaStamp(w, clock) == [w EXCEPT !.last_gga_time = clock]

\* a handler that answers every GGA with the default GGA
GgaUplink_DefaultOnly(w, fields, fix, connected) == send_gga(w, default_gga, connected)

\* the second half of _on_gga_received: the receiver's own sentence goes
\* upstream when the fix is valid, the default GGA otherwise
GgaUplink(w, fields, fix, connected) ==
    IF fix.fix_quality /= 0
    THEN send_gga(w, Join(fields, 1), connected)
    ELSE send_gga(w, default_gga, connected)

\* RTKPositioningSystem._on_gga_received
on_gga_received(w, fields, fix, clock, connected) ==
    GgaUplink([GgaStamp(w, clock) EXCEPT !.handlers = Append(@, "GGA"),
                                        !.sink = Append(@, fix)],
              fields, fix, connected)

\* RTKPositioningSystem._on_rmc_received: a debug log
on_rmc_received(w, fields, fix) == [w EXCEPT !.handlers = Append(@, "RMC")]

\* the result of parse_sentence: None, or the fix it returns
None == [none |-> TRUE]

\* what parse_sentence leaves when it returns None before any decoder ran
Dropped(w) == [w |-> w, result |-> None, fresh |-> FALSE]

\* the test parse_sentence makes before it decodes anything
ChecksumGate_Open(sentence) == TRUE

ChecksumGate(sentence) == validate_checksum(sentence)

\* what parse_sentence leaves after parse_gga and the GGA callback
GgaParsed(w, fields, g, clock, connected) ==
    [w |-> on_gga_received([w EXCEPT !.position = g.fix], fields, g.fix, clock, connected),
     result |-> g.fix, fresh |-> g.fresh]

\* after parse_rmc and the RMC callback
RmcParsed(w, fields, fix) ==
    [w |-> on_rmc_received([w EXCEPT !.position = fix], fields, fix),
     result |-> fix, fresh |-> FALSE]

\* after parse_gll; no callback is registered for GLL
GllParsed(w, fix) == [w |-> [w EXCEPT !.position = fix], result |-> fix, fresh |-> FALSE]

\* a dispatch that does not look at the enabled set
DispatchType_AllTypes(w, fields, message_type, clock, connected, enabled) ==
    IF message_type = GGA
    THEN GgaParsed(w, fields, parse_gga(w.position, fields, clock), clock, connected)
    ELSE IF message_type = RMC
    THEN RmcParsed(w, fields, parse_rmc(w.position, fields, clock))
    ELSE IF message_type = GLL
    THEN GllParsed(w, parse_gll(w.position, fields, clock))
    ELSE Dropped(w)

\* the enabled test, the decoder of the type and its callback
DispatchType(w, fields, message_type, clock, connected, enabled) ==
    IF message_type \notin enabled THEN Dropped(w)
    ELSE IF message_type = GGA
    THEN GgaParsed(w, fields, parse_gga(w.position, fields, clock), clock, connected)
    ELSE IF message_type = RMC
    THEN RmcParsed(w, fields, parse_rmc(w.position, fields, clock))
    ELSE IF message_type = GLL
    THEN GllParsed(w, parse_gll(w.position, fields, clock))
    ELSE Dropped(w)

\* message_type = fields[0][3:]
Dispatch(w, fields, clock, connected, enabled) ==
    DispatchType(w, fields, Slice(fields[1], 3, Len(fields[1])), clock, connected, enabled)

\* parse_sentence after sentence.strip()
ParseStripped(w, sentence, clock, connected, enabled) ==
    IF sentence = <<>> \/ Head(sentence) /= "$" THEN Dropped(w)
    ELSE IF ~ChecksumGate(sentence) THEN Dropped(w)
    ELSE Dispatch(w, Split(Split(sentence, "*")[1], ","), clock, connected, enabled)

\* NMEAParser.parse_sentence; fresh tells that the rolling fix is now a new
\* object (parse_gga built one), so that older references keep the old fix
parse_sentence(w, raw, clock, connected, enabled) ==
    ParseStripped(w, Strip(raw), clock, connected, enabled)

\* the mediator's state around one sentence
Snapshot(pos, cur, stamp) == [position |-> pos, current_position |-> cur, last_gga_time |-> stamp]

\* one entry of lastLines
LineRecord(line, via, r, before, after) ==
    [line |-> line, via |-> via, result |-> r.result, handlers |-> r.w.handlers,
     sink |-> r.w.sink, uplink |-> r.w.uplink, before |-> before, after |-> after]

FilteredWith(line, snap) ==
    [line |-> line, via |-> "filtered", result |-> None, handlers |-> <<>>,
     sink |-> <<>>, uplink |-> <<>>, before |-> snap, after |-> snap]

\* a line _on_serial_data discards before it reaches parse_sentence
FilteredRecord(line, st) ==
    FilteredWith(line, Snapshot(st.position, st.current_position, st.last_gga_time))

FreshLogs(pos, stamp) ==
    [position |-> pos, last_gga_time |-> stamp, handlers |-> <<>>, sink |-> <<>>,
     uplink |-> <<>>]

\* the len(line) > 6 test of _on_serial_data
MinLineLength == 6
\* the accumulator is cut to its last NmeaBufferKeep characters when it
\* grows beyond NmeaBufferLimit
NmeaBufferLimit == 10000
NmeaBufferKeep == 5000

\* the filters of _on_serial_data in front of parse_sentence
LineAccepted(line) ==
    /\ Head(line) = "$" /\ Len(line) > MinLineLength
    /\ Find(line, "*") /= 0 /\ Len(Split(line, "*")) = 2
    /\ validate_checksum(line)

\* the mediator after parse_sentence returned r for a line: cur is the new
\* current_position
Advance(st, line, r, cur) ==
    [st EXCEPT !.position = r.w.position,
               !.last_gga_time = r.w.last_gga_time,
               !.current_position = cur,
               !.current_is_rolling = IF r.result /= None THEN TRUE ELSE @,
               !.lines = Append(@, LineRecord(line, "serial", r,
                                    Snapshot(st.position, st.current_position, st.last_gga_time),
                                    Snapshot(r.w.position, cur, r.w.last_gga_time)))]

\* if position: self.current_position = position
AfterSentence(st, line, r) ==
    Advance(st, line, r, IF r.result /= None THEN r.result ELSE st.current_position)

\* the while loop of _on_serial_data: st is the accumulator, the rolling
\* fix, current_position (and whether it is the rolling object),
\* last_gga_time and the record of the lines so far
RECURSIVE SerialLines(_, _, _, _)

\* the body of the loop for one stripped line
HandleLine(st, line, clock, connected, enabled) ==
    IF line = <<>> THEN SerialLines(st, clock, connected, enabled)
    ELSE IF ~LineAccepted(line)
    THEN SerialLines([st EXCEPT !.lines = Append(@, FilteredRecord(line, st))],
                     clock, connected, enabled)
    ELSE SerialLines(AfterSentence(st, line,
                         parse_sentence(FreshLogs(st.position, st.last_gga_time), line,
                                        clock, connected, enabled)),
                     clock, connected, enabled)

\* line = buffer[:line_end].strip(); buffer = buffer[line_end + 1:]
TakeLine(st, line_end, clock, connected, enabled) ==
    HandleLine([st EXCEPT !.buf = SubSeq(st.buf, line_end + 1, Len(st.buf))],
               Strip(SubSeq(st.buf, 1, line_end - 1)), clock, connected, enabled)

SerialLines(st, clock, connected, enabled) ==
    IF Find(st.buf, "\n") = 0 THEN st
    ELSE TakeLine(st, Find(st.buf, "\n"), clock, connected, enabled)

\* an accumulator that is never cut
TrimBuffer_Never(buf) == buf

\* if len(buffer) > 10000: buffer = buffer[-5000:]
TrimBuffer(buf) ==
    IF Len(buf) > NmeaBufferLimit
    THEN SubSeq(buf, Len(buf) - NmeaBufferKeep + 1, Len(buf))
    ELSE buf

\* the mediator's fields after the loop of _on_serial_data
CommitSerial(st) ==
    /\ nmea_buffer' = TrimBuffer(st.buf)
    /\ position' = st.position
    /\ current_position' = st.current_position
    /\ current_is_rolling' = st.current_is_rolling
    /\ last_gga_time' = st.last_gga_time
    /\ lastLines' = st.lines

\* RTKPositioningSystem._on_serial_data
OnSerialData(data, clock) ==
    CommitSerial(SerialLines([buf |-> nmea_buffer \o DecodeAscii(data),
                              position |-> position,
                              current_position |-> current_position,
                              current_is_rolling |-> current_is_rolling,
                              last_gga_time |-> last_gga_time, lines |-> <<>>],
                             clock, ntrip_is_connected, enabled_messages))

\* the mediator after a direct call returned r; cur is what
\* current_position shows afterwards
CommitParsed(raw, r, cur) ==
    /\ position' = r.w.position
    /\ last_gga_time' = r.w.last_gga_time
    /\ current_position' = cur
    /\ current_is_rolling' = (current_is_rolling /\ ~r.fresh)
    /\ lastLines' = <<LineRecord(raw, "direct", r,
                                 Snapshot(position, current_position, last_gga_time),
                                 Snapshot(r.w.position, cur, r.w.last_gga_time))>>
    /\ UNCHANGED nmea_buffer

\* RMC and GLL assign to the rolling object, which current_position may
\* be; a GGA makes a new rolling object and leaves the old one to
\* current_position
CommitParse(raw, r) ==
    CommitParsed(raw, r,
                 IF current_is_rolling /\ ~r.fresh THEN r.w.position ELSE current_position)

\* a call of the parser from outside _on_serial_data:
\* nmea_parser.parse_sentence(raw)
OnParseSentence(raw, clock) ==
    CommitParse(raw, parse_sentence(FreshLogs(position, last_gga_time), raw, clock,
                                    ntrip_is_connected, enabled_messages))

-----------------------------------------------------------------------------
(* The receiver's output and the callers of the NMEA path *)

\* '$' + body + '*' + checksum
Sentence(body, checksum) == <<"$">> \o body \o <<"*">> \o checksum

GgaSeed == Sentence(GgaSeedBody, <<"4", "7">>)
\* the seed GGA with '*00' in place of '*47'
GgaBadChecksum == Sentence(GgaSeedBody, <<"0", "0">>)
RmcSeed == Sentence(RmcSeedBody, <<"6", "A">>)
\* the checksum in lower case
RmcSeedLower == Sentence(RmcSeedBody, <<"6", "a">>)
RmcVoid == Sentence(RmcVoidBody, <<"7", "B">>)
GgaRtk == Sentence(GgaRtkBody, <<"6", "7">>)
GgaInvalid == Sentence(GgaInvalidBody, <<"7", "A">>)
GllSeed == Sentence(GllBody, <<"5", "1">>)
\* a second '*' and checksum after a complete sentence
GgaTwoStars == GgaSeed \o <<"*", "4", "7">>
\* a sentence without its '$'
GgaNoDollar == Tail(GgaSeed)
\* a checksum of three characters
GgaLongChecksum == GgaSeed \o <<"0">>

Line(sentence) == sentence \o CRLF

\* what one read of the serial port can return
Chunks ==
    { Line(GgaSeed), Line(GgaBadChecksum), Line(RmcSeedLower),
      Line(RmcSeed) \o Line(RmcVoid),
      Line(GgaRtk), Line(GgaInvalid), Line(GllSeed), Line(GgaTwoStars),
      Line(GgaNoDollar),
      Line(GgaBadChecksum) \o Line(RmcSeed),
      SubSeq(GgaSeed, 1, 20),
      SubSeq(Line(GgaSeed), 21, Len(Line(GgaSeed))),
      <<HighByte>> }

\* the strings a direct caller hands to parse_sentence
DirectSentences ==
    { GgaSeed, <<" ">> \o RmcSeed \o CRLF, GgaBadChecksum, GgaTwoStars, GgaNoDollar,
      GgaLongChecksum, RmcVoid }

-----------------------------------------------------------------------------
(* The filter of NMEA types: NMEAParser.__init__, set_enabled_messages *)

\* a type the parser has no decoder for
VTG == <<"V", "T", "G">>

\* self.supported_messages
supported_messages == {GGA, RMC, GLL}

\* the argument enabled_messages: None, or a list of types
NoList == [given |-> FALSE, list |-> <<>>]
ListOf(list) == [given |-> TRUE, list |-> list]

\* set(list)
SetOf(list) == {list[i] : i \in 1..Len(list)}

\* NMEAParser.__init__: set(enabled_messages) if enabled_messages else
\* {'GGA', 'RMC', 'GLL'}; None and the empty list are both falsy
InitEnabled(arg) ==
    IF arg.given /\ arg.list /= <<>> THEN SetOf(arg.list) ELSE {GGA, RMC, GLL}

\* NMEAParser.set_enabled_messages: the types of the list that are supported
set_enabled_messages(list) == {msg \in SetOf(list) : msg \in supported_messages}

\* the arguments a mediator is built with
ConstructorArgs == {NoList, ListOf(<<GGA>>), ListOf(<<GGA, VTG>>), ListOf(<<>>)}

\* the lists given to set_nmea_message_filter
FilterLists == {<<GGA>>, <<RMC, VTG>>, <<>>}

-----------------------------------------------------------------------------
(* Lifecycle: SerialCommunicator and NTRIPClient connect and disconnect,    *)
(* RTKPositioningSystem.start and stop, and the loops of the three tasks.   *)
(* Time is counted in the ticks of the supervisor part (half seconds).      *)

\* clock ticks in a second of time.time()
TicksPerSecond == 2

\* thread.join(timeout=2.0)
JoinTimeout == 2
\* self.socket.settimeout(10.0)
RecvTimeout == 10

\* one entry of lifeLog
Step(name, ok) == [step |-> name, ok |-> ok]

\* success of start(): no configured endpoint failed to connect
StartSucceeds(serial, kind, serial_ok, ntrip_ok) ==
    (serial => serial_ok) /\ (kind /= "none" => ntrip_ok)

\* the steps of start(), in the order of its statements
StartSteps(serial, kind, serial_ok, ntrip_ok) ==
    (IF serial THEN <<Step("serial.connect", serial_ok)>> ELSE <<>>)
    \o (IF kind /= "none" THEN <<Step("ntrip.connect", ntrip_ok)>> ELSE <<>>)
    \o (IF StartSucceeds(serial, kind, serial_ok, ntrip_ok)
        THEN <<Step("monitor.spawn", TRUE)>> ELSE <<>>)

\* a start() that undoes the connects that succeeded when another failed
ConnectedAfter_RolledBack(connect_ok, success) == connect_ok /\ success

\* whether an endpoint whose connect() was called is connected when start()
\* returns: start() undoes nothing
ConnectedAfter(connect_ok, success) == connect_ok

\* a close that does not look at the port first
CloseSerial_Unguarded(conn) == IF conn = "none" THEN "raise" ELSE "closed"

\* if self.serial_conn and self.serial_conn.is_open: self.serial_conn.close()
CloseSerial(conn) == IF conn = "open" THEN "closed" ELSE conn

\* if self.socket: self.socket.close()
CloseSocket(sock) == IF sock /= "none" THEN "closed" ELSE sock

\* a reader that clears the flag when the port raises
ReaderFlag_ClearedOnError(outcome, connected) ==
    IF outcome = "error" THEN FALSE ELSE connected

\* is_connected after one iteration of _read_loop: the except branch logs
\* and breaks, and nothing in the loop assigns the flag
ReaderFlag(outcome, connected) == connected

\* a receiver that gives up on the first socket timeout
AfterRecv_TimeoutEnds(outcome) == IF outcome = "data" THEN "testing" ELSE "finished"

\* _receive_loop after recv: data goes to the callbacks and a timeout is
\* ignored, both back to the loop test; an empty read or an error ends it
AfterRecv(outcome) == IF outcome \in {"data", "timeout"} THEN "testing" ELSE "finished"

\* the NTRIP task (the receiver, or the mock sender) is running
NtripTaskAlive == receive_thread \in {"testing", "receiving"} \/ mock_thread = "alive"

\* the mediator and its tasks as __init__ and the configure calls leave them
LifeConstructed ==
    /\ is_running = FALSE
    /\ started = FALSE
    /\ quiet = FALSE
    /\ caller = "idle"
    /\ serial_conn = "none"
    /\ socket = "none"
    /\ serial_stop_event = FALSE
    /\ ntrip_stop_event = FALSE
    /\ monitor_stop_event = FALSE
    /\ read_thread = "none"
    /\ receive_thread = "none"
    /\ mock_thread = "none"
    /\ monitor_thread = "none"
    /\ joinLeft = 0
    /\ stopTicks = 0
    /\ sleepLeft = 0
    /\ recvLeft = 0
    /\ lastSerialIo = "none"
    /\ lastNtripIo = "none"
    /\ lifeLog = <<>>
    /\ startResult = "none"
    /\ raised = FALSE

\* the mediator after a start() that succeeded with an NTRIPClient
\* configured, with or without a serial port; ntrip_up is FALSE when the
\* caster has closed the stream since
LifeStarted(serial, ntrip_up) ==
    /\ ntripKind = "real"
    /\ is_running = TRUE
    /\ started = TRUE
    /\ quiet = FALSE
    /\ caller = "idle"
    /\ serial_conn = (IF serial THEN "open" ELSE "none")
    /\ socket = "open"
    /\ serial_stop_event = FALSE
    /\ ntrip_stop_event = FALSE
    /\ monitor_stop_event = FALSE
    /\ read_thread = (IF serial THEN "alive" ELSE "none")
    /\ receive_thread = (IF ntrip_up THEN "receiving" ELSE "finished")
    /\ mock_thread = "none"
    /\ monitor_thread = "alive"
    /\ joinLeft = 0
    /\ stopTicks = 0
    /\ sleepLeft = 0
    /\ recvLeft = (IF ntrip_up THEN RecvTimeout * TicksPerSecond ELSE 0)
    /\ lastSerialIo = "none"
    /\ lastNtripIo = (IF ntrip_up THEN "none" ELSE "eof")
    /\ lifeLog = StartSteps(serial, "real", TRUE, TRUE)
    /\ startResult = "True"
    /\ raised = FALSE

-----------------------------------------------------------------------------
(* Nothing converted, no handshake made, no send_gga in progress, no task   *)
(* left over from an earlier start()                                        *)

NoPair == [none |-> TRUE]

\* every registered handler and byte callback returns
NoFaults == [nmea |-> {}, rtcm |-> {}, bytes |-> {}]

ExtQuiet ==
    /\ utm_in = NoPair
    /\ utm_out = NoPair
    /\ response = <<>>
    /\ connect_result = "none"
    /\ uplink_pc = [t \in {"handler", "supervisor"} |-> "out"]
    /\ uplink_log = <<>>
    /\ orphan_readers = 0
    /\ orphan_receivers = 0
    /\ orphan_monitors = 0
    /\ restarts = 0

ExtIdle ==
    /\ ExtQuiet
    /\ faulty = NoFaults
    /\ fault_log = <<>>

-----------------------------------------------------------------------------
(* The position sink and the fix objects as the constructors leave them *)

\* PositionHandler.__init__: nothing logged, nothing drawn
SinkConstructed ==
    /\ enable_gui = TRUE
    /\ sink_log = <<>>
    /\ base_marker = None
    /\ track = <<>>
    /\ lastHandled = [n |-> 0]

\* self.position = GPSPosition() of NMEAParser.__init__ is object 1,
\* self.current_position = GPSPosition() of the mediator is object 2
HeapConstructed ==
    /\ heap = <<GPSPosition(TimeNow(0)), GPSPosition(TimeNow(0))>>
    /\ parser_position = 1
    /\ mediator_current = 2
    /\ parsing = "idle"
    /\ assigning = <<>>
    /\ emitted = {}
    /\ reader_ref = 0
    /\ reader_copy = None
    /\ completed = {GPSPosition(TimeNow(0))}

-----------------------------------------------------------------------------
(* The downstream path: caster -> NTRIP client -> mediator -> serial port *)

\* the rover side as RTKPositioningSystem.__init__ and NMEAParser.__init__
\* leave it, at time 0
NmeaConstructed ==
    /\ now = 0
    /\ nmea_buffer = <<>>
    /\ position = GPSPosition(TimeNow(0))
    /\ current_position = GPSPosition(TimeNow(0))
    /\ current_is_rolling = FALSE
    /\ last_gga_time = 0
    /\ lastLines = <<>>

\* no supervisor tick yet
NoTick == [tick |-> "none"]

\* the supervisor before start()
MonitorIdle ==
    /\ wakeAt = 0
    /\ lastTick = NoTick
    /\ ggaArrivedAt = 0
    /\ received = 0

InitNtrip ==
    /\ wire = <<>>
    /\ nSent = 0
    /\ lastPiece = <<>>
    /\ ntripIn = <<>>
    /\ serialOut = <<>>
    /\ linkOk = TRUE
    /\ serialConfigured \in BOOLEAN
    /\ serial_is_connected = serialConfigured
    /\ portFaulty \in (IF serialConfigured THEN BOOLEAN ELSE {FALSE})
    /\ buffer = <<>>
    /\ rtcm_stats = <<>>
    /\ lastMsgs = <<>>
    /\ lastEvents = <<>>
    /\ parserIn = <<>>
    /\ baseFixes = <<>>
    /\ NmeaConstructed
    /\ filterList = NoList
    /\ enabled_messages = InitEnabled(NoList)
    /\ ntrip_is_connected = TRUE
    /\ MonitorIdle
    /\ LifeStarted(serialConfigured, TRUE)
    /\ SinkConstructed
    /\ HeapConstructed
    /\ ExtIdle

\* the caster writes one more piece to the TCP stream
CasterSend ==
    \E p \in Pieces :
        /\ nSent < MaxPieces
        /\ wire' = wire \o p
        /\ nSent' = nSent + 1
        /\ lastPiece' = p
        /\ UNCHANGED <<ntripIn, serialOut, linkOk, serialConfigured, serial_is_connected,
                       buffer, rtcm_stats, lastMsgs, lastEvents, parserIn, baseFixes,
                       portFaulty, nmeaVars, monVars, filterList, lifeVars, sinkVars, snapVars, extVars>>

\* NTRIPClient._receive_loop: recv returns the next k bytes and the loop
\* hands them to the mediator's callback
NtripRecv ==
    \E k \in 1..Len(wire) :
        /\ OnNtripData(SubSeq(wire, 1, k))
        /\ wire' = SubSeq(wire, k + 1, Len(wire))
        /\ UNCHANGED <<nSent, lastPiece, serialConfigured, serial_is_connected, portFaulty,
                       nmeaVars, monVars, filterList, lifeVars, sinkVars, snapVars, extVars>>

\* SerialCommunicator.disconnect, called while the NTRIP receiver still runs
SerialDisconnect ==
    /\ serialConfigured
    /\ serial_is_connected
    /\ serial_is_connected' = FALSE
    /\ UNCHANGED <<wire, nSent, lastPiece, ntripIn, serialOut, linkOk, serialConfigured,
                   buffer, rtcm_stats, lastMsgs, lastEvents, parserIn, baseFixes,
                   portFaulty, nmeaVars, monVars, filterList, lifeVars, sinkVars, snapVars, extVars>>

NextNtrip == CasterSend \/ NtripRecv \/ SerialDisconnect

SpecNtrip == InitNtrip /\ [][NextNtrip]_vars

\* frames the parser has nothing special for: no payload, a payload of one
\* byte, and type 0 (two zero bytes)
FrameEmpty == MakeFrame(<<>>)
FrameOneByte == MakeFrame(<<1>>)
FrameType0 == MakeFrame(<<0, 0>>)

\* a caster that sends well-formed frames only
StatFrames == {Frame1077, FrameEmpty, FrameOneByte, FrameType0}

\* the caster writes one more frame to the TCP stream
CasterSendFrame ==
    \E p \in StatFrames :
        /\ nSent < MaxPieces
        /\ wire' = wire \o p
        /\ nSent' = nSent + 1
        /\ lastPiece' = p
        /\ UNCHANGED <<ntripIn, serialOut, linkOk, serialConfigured, serial_is_connected,
                       buffer, rtcm_stats, lastMsgs, lastEvents, parserIn, baseFixes,
                       portFaulty, nmeaVars, monVars, filterList, lifeVars, sinkVars, snapVars, extVars>>

NextStats == CasterSendFrame \/ NtripRecv

\* the downstream path fed with well-formed frames of any type
SpecStats == InitNtrip /\ [][NextStats]_vars

\* a frame of type 1005 whose payload is the message number alone
Frame1005Short == MakeFrame(<<62, 208>>)

\* a caster that sends base-station messages
BaseFrames == {Frame1005, Frame1005Short, Frame1077}

\* the caster writes one more frame to the TCP stream
CasterSendBase ==
    \E p \in BaseFrames :
        /\ nSent < MaxPieces
        /\ wire' = wire \o p
        /\ nSent' = nSent + 1
        /\ lastPiece' = p
        /\ UNCHANGED <<ntripIn, serialOut, linkOk, serialConfigured, serial_is_connected,
                       buffer, rtcm_stats, lastMsgs, lastEvents, parserIn, baseFixes,
                       portFaulty, nmeaVars, monVars, filterList, lifeVars, sinkVars, snapVars, extVars>>

NextBase == CasterSendBase \/ NtripRecv

\* the downstream path fed with base-station frames
SpecBase == InitNtrip /\ [][NextBase]_vars

-----------------------------------------------------------------------------
(* The mock sender in place of the caster *)

\* frames the mock sender emits in one run
MaxMockFrames == 2

\* longest input given to the two checksum routines
MaxCrcLen == 3

\* byte values of the inputs: zero, one, the sync byte, and all ones
CrcBytes == {0, 1, 211, 255}

\* the byte strings of at most n bytes
BytesUpTo(n) == UNION {[1..k -> CrcBytes] : k \in 0..n}

\* the inputs of the checksum routines: short strings and the mock's header
\* and payload
CrcInputs == BytesUpTo(MaxCrcLen) \cup {MockHeaderPayload}

\* _mock_loop: one turn of the loop hands full_msg to the byte callback
MockSend ==
    /\ nSent < MaxMockFrames
    /\ nSent' = nSent + 1
    /\ OnNtripData(MockFrame)
    /\ UNCHANGED <<wire, lastPiece, serialConfigured, serial_is_connected, portFaulty,
                   nmeaVars, monVars, filterList, lifeVars, sinkVars, snapVars, extVars>>

\* the two checksum routines are given the same input (kept in lastPiece)
CrcInput ==
    \E data \in CrcInputs :
        /\ lastPiece' = data
        /\ UNCHANGED <<wire, nSent, ntripIn, serialOut, linkOk, serialConfigured,
                       serial_is_connected, buffer, rtcm_stats, lastMsgs, lastEvents,
                       parserIn, baseFixes, portFaulty, nmeaVars, monVars, filterList,
                       lifeVars, sinkVars, snapVars, extVars>>

NextMock == MockSend \/ CrcInput

SpecMock == InitNtrip /\ [][NextMock]_vars

-----------------------------------------------------------------------------
(* CoordinateConverter: the simplified UTM conversion and its inverse.      *)
(* Coordinates are whole degrees; x and y are whole metres.                  *)

MetresPerLonDegree == 111320
MetresPerLatDegree == 110540
ZoneWidth == 6
LonOffset == 180
MaxLatitude == 90
MaxLongitude == 180

\* the grid the inputs are drawn from
LatStep == 15
LonStep == 30

Latitudes == {d \in (0 - MaxLatitude)..MaxLatitude : d % LatStep = 0}
Longitudes == {d \in (0 - MaxLongitude)..MaxLongitude : d % LonStep = 0}

wgs84_to_utm(lat, lon) ==
    [x          |-> (lon + LonOffset) * MetresPerLonDegree,
     y          |-> lat * MetresPerLatDegree,
     zone       |-> ((lon + LonOffset) \div ZoneWidth) + 1,
     hemisphere |-> IF lat >= 0 THEN "N" ELSE "S"]

utm_to_wgs84(u) ==
    LET lon == (u.x \div MetresPerLonDegree) - LonOffset
        lat == u.y \div MetresPerLatDegree
    IN <<IF u.hemisphere = "S" THEN 0 - lat ELSE lat, lon>>

\* test_coordinate_conversion: convert, convert back
UtmRoundTrip ==
    /\ \E lat \in Latitudes, lon \in Longitudes :
          /\ utm_in' = <<lat, lon>>
          /\ utm_out' = utm_to_wgs84(wgs84_to_utm(lat, lon))
    /\ UNCHANGED <<ntripVars, nmeaVars, monVars, filterList, lifeVars, sinkVars, snapVars,
                   handshakeVars, uplinkVars, orphanVars, faultVars>>

SpecUtm == InitNtrip /\ [][UtmRoundTrip]_vars

-----------------------------------------------------------------------------
(* The NMEA path: the serial reader and direct callers of the parser *)

\* calls of the NMEA path in one run; the clock advances by one per call
MaxCalls == 2

\* the NTRIP downstream side, with no caster data in flight
NtripIdle ==
    /\ wire = <<>>
    /\ nSent = 0
    /\ lastPiece = <<>>
    /\ ntripIn = <<>>
    /\ serialOut = <<>>
    /\ linkOk = TRUE
    /\ serialConfigured = TRUE
    /\ serial_is_connected = TRUE
    /\ portFaulty = FALSE
    /\ buffer = <<>>
    /\ rtcm_stats = <<>>
    /\ lastMsgs = <<>>
    /\ lastEvents = <<>>
    /\ parserIn = <<>>
    /\ baseFixes = <<>>

\* RTKPositioningSystem.__init__ and NMEAParser.__init__
InitNmea ==
    /\ NtripIdle
    /\ MonitorIdle
    /\ NmeaConstructed
    /\ filterList \in ConstructorArgs
    /\ enabled_messages = InitEnabled(filterList)
    /\ ntrip_is_connected \in BOOLEAN
    /\ LifeStarted(TRUE, ntrip_is_connected)
    /\ SinkConstructed
    /\ HeapConstructed
    /\ ExtIdle

\* SerialCommunicator._read_loop: one read handed to _on_serial_data
SerialRead ==
    \E data \in Chunks :
        /\ now < MaxCalls
        /\ now' = now + 1
        /\ OnSerialData(data, now + 1)
        /\ UNCHANGED <<enabled_messages, ntrip_is_connected, ntripVars, monVars, filterList,
                       lifeVars, sinkVars, snapVars, extVars>>

\* nmea_parser.parse_sentence called with one string
ParseSentenceCall ==
    \E raw \in DirectSentences :
        /\ now < MaxCalls
        /\ now' = now + 1
        /\ OnParseSentence(raw, now + 1)
        /\ UNCHANGED <<enabled_messages, ntrip_is_connected, ntripVars, monVars, filterList,
                       lifeVars, sinkVars, snapVars, extVars>>

\* RTKPositioningSystem.set_nmea_message_filter
SetFilter ==
    \E list \in FilterLists :
        /\ now < MaxCalls
        /\ now' = now + 1
        /\ filterList' = ListOf(list)
        /\ enabled_messages' = set_enabled_messages(list)
        /\ lastLines' = <<>>
        /\ UNCHANGED <<nmea_buffer, position, current_position, current_is_rolling,
                       last_gga_time, ntrip_is_connected, ntripVars, monVars, lifeVars, sinkVars, snapVars, extVars>>

NextNmea == SerialRead \/ ParseSentenceCall \/ SetFilter

SpecNmea == InitNmea /\ [][NextNmea]_vars

-----------------------------------------------------------------------------
(* Sentences with a field out of range, unparsable or missing, with the     *)
(* checksum that matches their text                                         *)

\* the body with its k-th comma-separated field replaced
WithField(body, k, text) == Join([Split(body, ",") EXCEPT ![k] = text], 1)

\* the first n comma-separated fields of the body
FirstFields(body, n) == Join(SubSeq(Split(body, ","), 1, n), 1)

\* GPGGA,123519,4807.038,N,01131.000,E,9,08,0.9,545.4,M,46.9,M,,
GgaQ9 == Sentence(WithField(GgaSeedBody, 7, <<"9">>), <<"4", "F">>)
\* GPGGA,123519,4807.038,N,01131.000,E,-1,08,0.9,545.4,M,46.9,M,,
GgaQNeg == Sentence(WithField(GgaSeedBody, 7, <<"-", "1">>), <<"6", "A">>)
\* GPGGA,123519,4807.038,N,01131.000,E,1,x,0.9,545.4,M,46.9,M,,
GgaBadSats == Sentence(WithField(GgaSeedBody, 8, <<"x">>), <<"3", "7">>)
\* GPGGA,123519,4807.038,N,01131.000,E,1,08,x,545.4,M,46.9,M,,
GgaBadHdop == Sentence(WithField(GgaSeedBody, 9, <<"x">>), <<"1", "8">>)
\* GPGGA,123519,48x7.038,N,01131.000,E,1,08,0.9,545.4,M,46.9,M,,
GgaBadLat ==
    Sentence(WithField(GgaSeedBody, 3, <<"4", "8", "x", "7", ".", "0", "3", "8">>), <<"0", "F">>)
\* GPGGA,123519,4807.038,N,01131.000,E,1,08,0.9,545.4,M,46.9,M, (14 fields)
GgaShort == Sentence(FirstFields(GgaSeedBody, 14), <<"6", "B">>)
\* GPRMC,123519,A,4807.038,N,01131.000,E,022.4,084.4,230394 (10 fields)
RmcShort == Sentence(FirstFields(RmcSeedBody, 10), <<"1", "1">>)
\* GPRMC,123519,A,4807.038,N,01131.000,E,x,084.4,230394,003.1,W
RmcBadSpeed == Sentence(WithField(RmcSeedBody, 8, <<"x">>), <<"3", "8">>)
\* GNGLL,4807.050,N,01131.010,E,123522 (6 fields)
GllShort == Sentence(FirstFields(GllBody, 6), <<"5", "1">>)
\* GNGLL,48x7.050,N,01131.010,E,123522,A,A
GllBadLat ==
    Sentence(WithField(GllBody, 2, <<"4", "8", "x", "7", ".", "0", "5", "0">>), <<"1", "9">>)

\* what one read of the serial port returns from a receiver that sends them
FieldChunks ==
    { Line(GgaQ9), Line(GgaQNeg), Line(GgaBadSats), Line(GgaBadHdop), Line(GgaBadLat),
      Line(GgaShort), Line(RmcShort), Line(RmcBadSpeed), Line(GllShort), Line(GllBadLat),
      Line(RmcSeed), Line(GgaSeed), Line(GllSeed) }

\* SerialCommunicator._read_loop: one read handed to _on_serial_data
FieldRead ==
    \E data \in FieldChunks :
        /\ now < MaxCalls
        /\ now' = now + 1
        /\ OnSerialData(data, now + 1)
        /\ UNCHANGED <<enabled_messages, ntrip_is_connected, ntripVars, monVars, filterList,
                       lifeVars, sinkVars, snapVars, extVars>>

SpecFields == InitNmea /\ [][FieldRead]_vars

-----------------------------------------------------------------------------
(* A receiver that sends long runs without a newline *)

MaxReads == 3

\* n times the character c
Run(c, n) == [i \in 1..n |-> c]

\* one character more than the accumulator keeps, exactly what it keeps, and
\* a quarter of its limit
JunkOver == Run("A", NmeaBufferKeep + 1)
JunkKeep == Run("B", NmeaBufferKeep)
JunkQuarter == Run("D", NmeaBufferLimit \div 4)

\* what one read of the serial port returns: runs of noise, the end of a
\* line, a sentence, and a sentence with noise after it
BufferChunks ==
    { JunkOver, JunkKeep, JunkQuarter, <<"\n">>, Line(GgaSeed), Line(GgaSeed) \o JunkQuarter }

\* the mediator with every supported type enabled and the caster connected
InitBuffer ==
    /\ NtripIdle
    /\ MonitorIdle
    /\ NmeaConstructed
    /\ filterList = NoList
    /\ enabled_messages = InitEnabled(filterList)
    /\ ntrip_is_connected = TRUE
    /\ LifeStarted(TRUE, ntrip_is_connected)
    /\ SinkConstructed
    /\ HeapConstructed
    /\ ExtIdle

\* SerialCommunicator._read_loop: one read handed to _on_serial_data
BufferRead ==
    \E data \in BufferChunks :
        /\ now < MaxReads
        /\ now' = now + 1
        /\ OnSerialData(data, now + 1)
        /\ UNCHANGED <<enabled_messages, ntrip_is_connected, ntripVars, monVars, filterList,
                       lifeVars, sinkVars, snapVars, extVars>>

SpecBuffer == InitBuffer /\ [][BufferRead]_vars

-----------------------------------------------------------------------------
(* The supervisor: _monitor_loop beside the serial reader.  The clock of     *)
(* this part counts half seconds.                                           *)

\* the horizon of a run, in clock ticks
MaxTime == 7
\* sentences the receiver delivers in one run
MaxReceived == 1
\* time.sleep(1.0)
MonitorSleep == 1
\* current_time - self.last_gga_time > 2
KeepAliveSeconds == 2

KeepAliveDue_AtThreshold(current_time, stamp) ==
    current_time - stamp >= KeepAliveSeconds * TicksPerSecond

KeepAliveDue(current_time, stamp) ==
    current_time - stamp > KeepAliveSeconds * TicksPerSecond

\* what the receiver emits while the supervisor runs
MonitorChunks == { Line(GgaSeed), Line(GgaInvalid), Line(RmcSeed) }

\* the chunks that carry a GGA the receiver vouches for
GgaChunks == { Line(GgaSeed), Line(GgaInvalid) }

\* the state after start(): serial and NTRIP connected, the supervisor
\* thread about to make its first check
InitMon ==
    /\ NtripIdle
    /\ NmeaConstructed
    /\ filterList = NoList
    /\ enabled_messages = InitEnabled(NoList)
    /\ ntrip_is_connected = TRUE
    /\ lastLines = <<>>
    /\ MonitorIdle
    /\ LifeStarted(TRUE, TRUE)
    /\ SinkConstructed
    /\ HeapConstructed
    /\ ExtIdle

\* time passes
ClockTick ==
    /\ now < MaxTime
    /\ now' = now + 1
    /\ UNCHANGED <<nmea_buffer, position, current_position, current_is_rolling,
                   last_gga_time, enabled_messages, ntrip_is_connected, lastLines,
                   ntripVars, monVars, filterList, lifeVars, sinkVars, snapVars, extVars>>

\* one iteration of _monitor_loop: the keep-alive check, then the sleep
MonitorTick ==
    /\ now >= wakeAt
    /\ lastTick' =
          [at |-> now, connected |-> ntrip_is_connected, since_gga |-> now - ggaArrivedAt,
           uplink |-> IF ntrip_is_connected /\ KeepAliveDue(now, last_gga_time)
                      THEN send_gga(FreshLogs(position, last_gga_time), default_gga,
                                    ntrip_is_connected).uplink
                      ELSE <<>>]
    /\ wakeAt' = now + MonitorSleep * TicksPerSecond
    /\ UNCHANGED <<nmeaVars, ntripVars, ggaArrivedAt, received, filterList, lifeVars, sinkVars, snapVars, extVars>>

\* the receiver delivers a sentence while the supervisor runs
ReceiverSentence ==
    \E data \in MonitorChunks :
        /\ received < MaxReceived
        /\ received' = received + 1
        /\ OnSerialData(data, now)
        /\ ggaArrivedAt' = IF data \in GgaChunks THEN now ELSE ggaArrivedAt
        /\ UNCHANGED <<now, enabled_messages, ntrip_is_connected, ntripVars, wakeAt, lastTick,
                       filterList, lifeVars, sinkVars, snapVars, extVars>>

\* NTRIPClient._receive_loop ends: the caster closed the stream
NtripDrop ==
    /\ ntrip_is_connected
    /\ ntrip_is_connected' = FALSE
    /\ UNCHANGED <<now, nmea_buffer, position, current_position, current_is_rolling,
                   last_gga_time, enabled_messages, lastLines, ntripVars, monVars,
                   filterList, lifeVars, sinkVars, snapVars, extVars>>

NextMon == ClockTick \/ MonitorTick \/ ReceiverSentence \/ NtripDrop

SpecMon == InitMon /\ [][NextMon]_vars

-----------------------------------------------------------------------------
(* Lifecycle: the caller of start() and stop() beside the serial reader,    *)
(* the NTRIP receiver (or the mock sender) and the supervisor.  What the    *)
(* tasks do with the data they read is in the parts above; here an          *)
(* iteration of a loop is its test of the stop flag, how its I/O ended and  *)
(* its sleep.  stop() blocks in three joins, so it is four steps.           *)

\* everything but the lifecycle stays as constructed
LifeFrame ==
    UNCHANGED <<wire, nSent, lastPiece, ntripIn, serialOut, linkOk, serialConfigured,
                buffer, rtcm_stats, lastMsgs, lastEvents, parserIn, baseFixes, portFaulty,
                now, nmea_buffer, position, current_position, last_gga_time,
                enabled_messages, current_is_rolling, lastLines, monVars, filterList,
                ntripKind, sinkVars, snapVars, extVars>>

\* a mediator as built and configured: with or without a serial port, with
\* an NTRIPClient, a MockNTRIPClient or no NTRIP client
InitLife ==
    /\ wire = <<>>
    /\ nSent = 0
    /\ lastPiece = <<>>
    /\ ntripIn = <<>>
    /\ serialOut = <<>>
    /\ linkOk = TRUE
    /\ serialConfigured \in BOOLEAN
    /\ serial_is_connected = FALSE
    /\ portFaulty = FALSE
    /\ buffer = <<>>
    /\ rtcm_stats = <<>>
    /\ lastMsgs = <<>>
    /\ lastEvents = <<>>
    /\ parserIn = <<>>
    /\ baseFixes = <<>>
    /\ NmeaConstructed
    /\ filterList = NoList
    /\ enabled_messages = InitEnabled(NoList)
    /\ ntrip_is_connected = FALSE
    /\ MonitorIdle
    /\ ntripKind \in {"none", "real", "mock"}
    /\ LifeConstructed
    /\ SinkConstructed
    /\ HeapConstructed
    /\ ExtIdle

\* RTKPositioningSystem.start with SerialCommunicator.connect and
\* NTRIPClient.connect (MockNTRIPClient.connect); serial_ok and ntrip_ok are
\* whether the port opened and whether the caster answered 200 OK
StartCall ==
    \E serial_ok \in BOOLEAN, ntrip_ok \in BOOLEAN :
        /\ caller = "idle"
        /\ ~started
        /\ (~serialConfigured => serial_ok)
        /\ (ntripKind /= "real" => ntrip_ok)
        /\ serial_is_connected' =
              IF serialConfigured
              THEN ConnectedAfter(serial_ok,
                                  StartSucceeds(serialConfigured, ntripKind, serial_ok, ntrip_ok))
              ELSE serial_is_connected
        /\ serial_conn' = (IF serialConfigured /\ serial_ok THEN "open" ELSE serial_conn)
        /\ serial_stop_event' = (IF serialConfigured /\ serial_ok THEN FALSE ELSE serial_stop_event)
        /\ read_thread' = (IF serialConfigured /\ serial_ok THEN "alive" ELSE read_thread)
        /\ ntrip_is_connected' =
              IF ntripKind /= "none"
              THEN ConnectedAfter(ntrip_ok,
                                  StartSucceeds(serialConfigured, ntripKind, serial_ok, ntrip_ok))
              ELSE ntrip_is_connected
        /\ socket' = (IF ntripKind = "real" THEN "open" ELSE socket)
        /\ ntrip_stop_event' = (IF ntripKind /= "none" /\ ntrip_ok THEN FALSE ELSE ntrip_stop_event)
        /\ receive_thread' = (IF ntripKind = "real" /\ ntrip_ok THEN "testing" ELSE receive_thread)
        /\ mock_thread' = (IF ntripKind = "mock" THEN "alive" ELSE mock_thread)
        /\ IF StartSucceeds(serialConfigured, ntripKind, serial_ok, ntrip_ok)
           THEN /\ is_running' = TRUE
                /\ monitor_stop_event' = FALSE
                /\ monitor_thread' = "alive"
                /\ sleepLeft' = 0
                /\ startResult' = "True"
           ELSE /\ startResult' = "False"
                /\ UNCHANGED <<is_running, monitor_stop_event, monitor_thread, sleepLeft>>
        /\ started' = TRUE
        /\ quiet' = FALSE
        /\ lifeLog' = StartSteps(serialConfigured, ntripKind, serial_ok, ntrip_ok)
        /\ UNCHANGED <<caller, joinLeft, stopTicks, recvLeft, lastSerialIo, lastNtripIo, raised>>
        /\ LifeFrame

\* a join returns when the thread has ended or its timeout has run out
JoinDone(alive) == ~alive \/ joinLeft = 0

\* the timeout of a join that is about to start; no join on a missing thread
JoinFor(thread) == IF thread = "none" THEN 0 ELSE JoinTimeout * TicksPerSecond

\* stop() up to the join of the supervisor: is_running = False,
\* monitor_stop_event.set(), monitor_thread.join(timeout=2.0)
StopBegin ==
    /\ caller = "idle"
    /\ caller' = "join_monitor"
    /\ is_running' = FALSE
    /\ monitor_stop_event' = TRUE
    /\ joinLeft' = JoinFor(monitor_thread)
    /\ stopTicks' = 0
    /\ lifeLog' = <<Step("monitor.stop", TRUE)>>
    /\ UNCHANGED <<serial_is_connected, ntrip_is_connected, started, quiet, serial_conn,
                   socket, serial_stop_event, ntrip_stop_event, read_thread, receive_thread,
                   mock_thread, monitor_thread, sleepLeft, recvLeft, lastSerialIo,
                   lastNtripIo, startResult, raised>>
    /\ LifeFrame

\* stop() from the return of the supervisor's join to the join of
\* SerialCommunicator.disconnect: stop_event.set(), read_thread.join(2.0)
StopSerial ==
    /\ caller = "join_monitor"
    /\ JoinDone(monitor_thread = "alive")
    /\ caller' = "join_serial"
    /\ IF serialConfigured
       THEN /\ serial_stop_event' = TRUE
            /\ joinLeft' = JoinFor(read_thread)
            /\ lifeLog' = Append(lifeLog, Step("serial.disconnect", TRUE))
       ELSE /\ joinLeft' = 0
            /\ UNCHANGED <<serial_stop_event, lifeLog>>
    /\ UNCHANGED <<serial_is_connected, ntrip_is_connected, is_running, started, quiet,
                   serial_conn, socket, ntrip_stop_event, monitor_stop_event, read_thread,
                   receive_thread, mock_thread, monitor_thread, stopTicks, sleepLeft,
                   recvLeft, lastSerialIo, lastNtripIo, startResult, raised>>
    /\ LifeFrame

\* the NTRIP task a disconnect joins: receive_thread, or mock_thread of the
\* mock client
NtripJoined == IF ntripKind = "mock" THEN mock_thread ELSE receive_thread

\* stop() from the return of the serial join to the join of
\* NTRIPClient.disconnect: the port is closed and is_connected cleared, then
\* the NTRIP stop_event is set and its task joined; an exception in the
\* close ends stop() there
StopNtrip ==
    /\ caller = "join_serial"
    /\ JoinDone(serialConfigured /\ read_thread = "alive")
    /\ IF serialConfigured /\ CloseSerial(serial_conn) = "raise"
       THEN /\ raised' = TRUE
            /\ caller' = "idle"
            /\ UNCHANGED <<serial_conn, serial_is_connected, ntrip_stop_event, joinLeft,
                           lifeLog>>
       ELSE /\ caller' = "join_ntrip"
            /\ serial_conn' = (IF serialConfigured THEN CloseSerial(serial_conn) ELSE serial_conn)
            /\ serial_is_connected' = (IF serialConfigured THEN FALSE ELSE serial_is_connected)
            /\ IF ntripKind /= "none"
               THEN /\ ntrip_stop_event' = TRUE
                    /\ joinLeft' = JoinFor(NtripJoined)
                    /\ lifeLog' = Append(lifeLog, Step("ntrip.disconnect", TRUE))
               ELSE /\ joinLeft' = 0
                    /\ UNCHANGED <<ntrip_stop_event, lifeLog>>
            /\ UNCHANGED raised
    /\ UNCHANGED <<ntrip_is_connected, is_running, started, quiet, socket, serial_stop_event,
                   monitor_stop_event, read_thread, receive_thread, mock_thread,
                   monitor_thread, stopTicks, sleepLeft, recvLeft, lastSerialIo, lastNtripIo,
                   startResult>>
    /\ LifeFrame

\* the end of stop(): after the NTRIP join the socket is closed and
\* is_connected cleared, the position sink is closed, and stop() returns
StopReturn ==
    /\ caller = "join_ntrip"
    /\ JoinDone(ntripKind /= "none" /\ NtripTaskAlive)
    /\ caller' = "idle"
    /\ socket' = (IF ntripKind = "real" THEN CloseSocket(socket) ELSE socket)
    /\ ntrip_is_connected' = (IF ntripKind /= "none" THEN FALSE ELSE ntrip_is_connected)
    /\ joinLeft' = 0
    /\ quiet' = TRUE
    /\ lifeLog' = Append(lifeLog, Step("stop.return", TRUE))
    /\ UNCHANGED <<serial_is_connected, is_running, started, serial_conn, serial_stop_event,
                   ntrip_stop_event, monitor_stop_event, read_thread, receive_thread,
                   mock_thread, monitor_thread, stopTicks, sleepLeft, recvLeft, lastSerialIo,
                   lastNtripIo, startResult, raised>>
    /\ LifeFrame

\* the variables the tasks never write
CallerFrame ==
    UNCHANGED <<is_running, started, quiet, caller, serial_conn, socket, serial_stop_event,
                ntrip_stop_event, monitor_stop_event, joinLeft, stopTicks, lifeLog,
                startResult, raised>>

\* _read_loop finds its loop test false: stop_event set, or is_connected
\* cleared
ReaderExit ==
    /\ read_thread = "alive"
    /\ serial_stop_event \/ ~serial_is_connected
    /\ read_thread' = "finished"
    /\ UNCHANGED <<serial_is_connected, ntrip_is_connected, receive_thread, mock_thread,
                   monitor_thread, sleepLeft, recvLeft, lastSerialIo, lastNtripIo>>
    /\ CallerFrame
    /\ LifeFrame

\* one iteration of _read_loop: bytes were waiting and went to the
\* callbacks, or none were, or the port raised and the loop broke
ReaderIo ==
    \E outcome \in {"data", "nodata", "error"} :
        /\ read_thread = "alive"
        /\ ~(serial_stop_event \/ ~serial_is_connected)
        /\ lastSerialIo' = outcome
        /\ read_thread' = (IF outcome = "error" THEN "finished" ELSE "alive")
        /\ serial_is_connected' = ReaderFlag(outcome, serial_is_connected)
        /\ UNCHANGED <<ntrip_is_connected, receive_thread, mock_thread,
                       monitor_thread, sleepLeft, recvLeft, lastNtripIo>>
        /\ CallerFrame
        /\ LifeFrame

\* the loop test of _receive_loop: on to recv, or out of the loop, where
\* is_connected is cleared
ReceiverTest ==
    /\ receive_thread = "testing"
    /\ IF ntrip_stop_event \/ ~ntrip_is_connected
       THEN /\ receive_thread' = "finished"
            /\ ntrip_is_connected' = FALSE
            /\ recvLeft' = 0
       ELSE /\ receive_thread' = "receiving"
            /\ recvLeft' = RecvTimeout * TicksPerSecond
            /\ UNCHANGED ntrip_is_connected
    /\ UNCHANGED <<serial_is_connected, read_thread, mock_thread, monitor_thread, sleepLeft,
                   lastSerialIo, lastNtripIo>>
    /\ CallerFrame
    /\ LifeFrame

\* recv returns: data, nothing (the caster closed the stream), an error, or
\* socket.timeout once the timeout has run out
ReceiverRecv ==
    \E outcome \in {"data", "eof", "error", "timeout"} :
        /\ receive_thread = "receiving"
        /\ (outcome = "timeout" => recvLeft = 0)
        /\ lastNtripIo' = outcome
        /\ receive_thread' = AfterRecv(outcome)
        /\ ntrip_is_connected' =
              (IF AfterRecv(outcome) = "finished" THEN FALSE ELSE ntrip_is_connected)
        /\ recvLeft' = 0
        /\ UNCHANGED <<serial_is_connected, read_thread, mock_thread, monitor_thread,
                       sleepLeft, lastSerialIo>>
        /\ CallerFrame
        /\ LifeFrame

\* one test of _mock_loop: out when stop_event is set, else a frame goes to
\* the callbacks
MockStep ==
    /\ mock_thread = "alive"
    /\ IF ntrip_stop_event
       THEN /\ mock_thread' = "finished"
            /\ UNCHANGED lastNtripIo
       ELSE /\ lastNtripIo' = "data"
            /\ UNCHANGED mock_thread
    /\ UNCHANGED <<serial_is_connected, ntrip_is_connected, read_thread, receive_thread,
                   monitor_thread, sleepLeft, recvLeft, lastSerialIo>>
    /\ CallerFrame
    /\ LifeFrame

\* the supervisor at the top of _monitor_loop: out when monitor_stop_event
\* is set, else the keep-alive check (MonitorTick above) and time.sleep(1.0)
MonitorWake ==
    /\ monitor_thread = "alive"
    /\ sleepLeft = 0
    /\ IF monitor_stop_event
       THEN /\ monitor_thread' = "finished"
            /\ UNCHANGED sleepLeft
       ELSE /\ sleepLeft' = MonitorSleep * TicksPerSecond
            /\ UNCHANGED monitor_thread
    /\ UNCHANGED <<serial_is_connected, ntrip_is_connected, read_thread, receive_thread,
                   mock_thread, recvLeft, lastSerialIo, lastNtripIo>>
    /\ CallerFrame
    /\ LifeFrame

\* the caller is in a join of stop()
Joining == caller \in {"join_monitor", "join_serial", "join_ntrip"}

\* the thread the caller's join waits for is running
JoinedAlive ==
    \/ caller = "join_monitor" /\ monitor_thread = "alive"
    \/ caller = "join_serial" /\ serialConfigured /\ read_thread = "alive"
    \/ caller = "join_ntrip" /\ ntripKind /= "none" /\ NtripTaskAlive

\* something happens before the clock moves on: a sleep or a timeout has
\* run out, a join can return, or a loop that turns in a hundredth of a
\* second is at its test with its stop flag set
Urgent ==
    \/ monitor_thread = "alive" /\ sleepLeft = 0
    \/ receive_thread = "testing"
    \/ receive_thread = "receiving" /\ recvLeft = 0
    \/ read_thread = "alive" /\ (serial_stop_event \/ ~serial_is_connected)
    \/ mock_thread = "alive" /\ ntrip_stop_event
    \/ Joining /\ JoinDone(JoinedAlive)

\* half a second passes
LifeTick ==
    /\ ~Urgent
    /\ \/ monitor_thread = "alive"
       \/ receive_thread = "receiving"
       \/ Joining
    /\ sleepLeft' = (IF monitor_thread = "alive" THEN sleepLeft - 1 ELSE sleepLeft)
    /\ recvLeft' = (IF receive_thread = "receiving" THEN recvLeft - 1 ELSE recvLeft)
    /\ joinLeft' = (IF Joining THEN joinLeft - 1 ELSE joinLeft)
    /\ stopTicks' = (IF Joining THEN stopTicks + 1 ELSE stopTicks)
    /\ UNCHANGED <<serial_is_connected, ntrip_is_connected, is_running, started, quiet,
                   caller, serial_conn, socket, serial_stop_event, ntrip_stop_event,
                   monitor_stop_event, read_thread, receive_thread, mock_thread,
                   monitor_thread, lastSerialIo, lastNtripIo, lifeLog, startResult, raised>>
    /\ LifeFrame

NextLife ==
    \/ StartCall \/ StopBegin \/ StopSerial \/ StopNtrip \/ StopReturn
    \/ ReaderExit \/ ReaderIo \/ ReceiverTest \/ ReceiverRecv \/ MockStep \/ MonitorWake
    \/ LifeTick

SpecLife == InitLife /\ [][NextLife]_vars

\* the tasks run and a stop() that has begun goes on; time passes however
\* often the tasks turn in their loops, as every turn of a loop takes time
\* (strong fairness of the tick); when start() and stop() are called is up
\* to the caller, and so is what the serial port delivers
SpecLifeFair ==
    /\ SpecLife
    /\ WF_vars(StopSerial) /\ WF_vars(StopNtrip) /\ WF_vars(StopReturn)
    /\ WF_vars(ReaderExit) /\ WF_vars(ReceiverTest) /\ WF_vars(ReceiverRecv)
    /\ WF_vars(MockStep) /\ WF_vars(MonitorWake) /\ SF_vars(LifeTick)

-----------------------------------------------------------------------------
(* The NTRIP handshake: NTRIPClient.connect called on a client just built.  *)
(* The caster's answer is a byte string; the first recv returns a prefix of *)
(* it, at most RecvLimit bytes long, and bytes.decode() turns that into     *)
(* text as strict UTF-8.                                                    *)

RecvLimit == 1024

\* str.encode() of ASCII text
Encode(text) == [i \in 1..Len(text) |-> Ord[text[i]]]

Ok200 == <<"2", "0", "0", " ", "O", "K">>

\* a byte 10xxxxxx
Continuation(b) == b >= 128 /\ b <= 191

\* the bytes of data from i on start with k continuation bytes after data[i]
Continued(data, i, k) ==
    /\ i + k <= Len(data)
    /\ \A j \in (i + 1)..(i + k) : Continuation(data[j])

\* the length of the UTF-8 sequence that starts at data[i], 0 when there is
\* none: a stray continuation byte, an overlong or surrogate form, a lead
\* byte above F4, or a sequence cut short
SequenceLength(data, i) ==
    IF data[i] < 128 THEN 1
    ELSE IF data[i] >= 194 /\ data[i] <= 223
         THEN (IF Continued(data, i, 1) THEN 2 ELSE 0)
    ELSE IF data[i] >= 224 /\ data[i] <= 239
         THEN (IF /\ Continued(data, i, 2)
                  /\ (data[i] = 224 => data[i + 1] >= 160)
                  /\ (data[i] = 237 => data[i + 1] <= 159)
               THEN 3 ELSE 0)
    ELSE IF data[i] >= 240 /\ data[i] <= 244
         THEN (IF /\ Continued(data, i, 3)
                  /\ (data[i] = 240 => data[i + 1] >= 144)
                  /\ (data[i] = 244 => data[i + 1] <= 143)
               THEN 4 ELSE 0)
    ELSE 0

\* the positions of data where a character starts
Leads(data) == {i \in 1..Len(data) : ~Continuation(data[i])}

\* the next position after i where a character starts, or the end
NextLead(data, i) ==
    IF \E k \in (i + 1)..Len(data) : ~Continuation(data[k])
    THEN CHOOSE k \in (i + 1)..Len(data) :
            /\ ~Continuation(data[k])
            /\ \A j \in (i + 1)..(k - 1) : Continuation(data[j])
    ELSE Len(data) + 1

\* bytes.decode() does not raise UnicodeDecodeError
Decodable(data) ==
    /\ (data /= <<>> => ~Continuation(data[1]))
    /\ \A i \in Leads(data) :
          /\ SequenceLength(data, i) > 0
          /\ NextLead(data, i) = i + SequenceLength(data, i)

\* the code point of the sequence of n bytes at data[i]
CodePoint(data, i, n) ==
    IF n = 1 THEN data[i]
    ELSE IF n = 2 THEN (data[i] - 192) * 64 + (data[i + 1] - 128)
    ELSE IF n = 3 THEN (data[i] - 224) * 4096 + (data[i + 1] - 128) * 64 + (data[i + 2] - 128)
    ELSE (data[i] - 240) * 262144 + (data[i + 1] - 128) * 4096
         + (data[i + 2] - 128) * 64 + (data[i + 3] - 128)

\* bytes.decode() of decodable bytes, as code points
DecodeUtf8(data) ==
    LET starts == SelectSeq([i \in 1..Len(data) |-> i], LAMBDA i : ~Continuation(data[i]))
    IN [k \in 1..Len(starts) |-> CodePoint(data, starts[k], SequenceLength(data, starts[k]))]

\* sub in text
Within(sub, text) ==
    \E i \in 1..(Len(text) - Len(sub) + 1) : SubSeq(text, i, i + Len(sub) - 1) = sub

\* lines 607-610: response = self.socket.recv(1024).decode(), then
\* "200 OK" in response; an exception in decode() goes to the except of
\* connect
Accepted(data) == Decodable(data) /\ Within(Encode(Ok200), DecodeUtf8(data))

\* what the caster may put in front of the status, the status, and what
\* follows it in the same segment: nothing, the blank line, the blank line
\* and the first RTCM frame, text outside ASCII, a lone byte FF
Headings == {<<>>, Encode(<<"I", "C", "Y", " ">>),
             Encode(<<"H", "T", "T", "P", "/", "1", ".", "1", " ">>)}

Statuses == {Encode(Ok200),
             Encode(<<"2", "0", "0", " ", "o", "k">>),
             Encode(<<"2", "0", "0">>),
             Encode(<<"4", "0", "1", " ", "U", "n", "a", "u", "t", "h">>),
             <<>>}

BlankLine == <<13, 10, 13, 10>>

Trailers == {<<>>, BlankLine, BlankLine \o MockFrame, BlankLine \o <<195, 169>>,
             BlankLine \o <<226, 130, 172>>, <<255>>, <<195>>}

\* answers longer than one read: the status ends at, or runs over, the limit
LongAnswers ==
    {Run(120, RecvLimit - Len(Ok200)) \o Encode(Ok200),
     Run(120, RecvLimit - Len(Ok200) + 2) \o Encode(Ok200),
     Encode(Ok200) \o Run(120, RecvLimit - Len(Ok200)) \o <<255>>}

Answers == {h \o s \o t : h \in Headings, s \in Statuses, t \in Trailers} \cup LongAnswers

\* how many bytes the first recv may return of an answer: any number for a
\* short answer, all that fit for a long one
FirstReads(answer) ==
    IF Len(answer) < RecvLimit THEN 0..Len(answer) ELSE {RecvLimit}

\* NTRIPClient.connect: the socket is made, then the TCP connect, the
\* request and the first recv either raise or give the first bytes
NtripConnect ==
    \E io \in {"ok", "raise"}, answer \in Answers :
      \E n \in FirstReads(answer) :
        /\ connect_result = "none"
        /\ socket' = "open"
        /\ response' = (IF io = "ok" THEN SubSeq(answer, 1, n) ELSE <<>>)
        /\ IF io = "ok" /\ Accepted(SubSeq(answer, 1, n))
           THEN /\ ntrip_is_connected' = TRUE
                /\ ntrip_stop_event' = FALSE
                /\ receive_thread' = "testing"
                /\ connect_result' = "True"
           ELSE /\ connect_result' = "False"
                /\ UNCHANGED <<ntrip_is_connected, ntrip_stop_event, receive_thread>>
        /\ UNCHANGED <<serial_is_connected, is_running, started, quiet, caller, serial_conn,
                       serial_stop_event, monitor_stop_event, read_thread, mock_thread,
                       monitor_thread, joinLeft, stopTicks, sleepLeft, recvLeft,
                       lastSerialIo, lastNtripIo, lifeLog, startResult, raised>>
        /\ UNCHANGED <<utmVars, uplinkVars, orphanVars, faultVars>>
        /\ UNCHANGED <<wire, nSent, lastPiece, ntripIn, serialOut, linkOk, serialConfigured,
                       buffer, rtcm_stats, lastMsgs, lastEvents, parserIn, baseFixes,
                       portFaulty, now, nmea_buffer, position, current_position,
                       last_gga_time, enabled_messages, current_is_rolling, lastLines,
                       monVars, filterList, ntripKind, sinkVars, snapVars>>

InitHandshake == InitLife /\ ntripKind = "real" /\ ~serialConfigured

SpecHandshake == InitHandshake /\ [][NtripConnect]_vars

-----------------------------------------------------------------------------
(* The GGA uplink beside the receiver.  send_gga is called from the serial  *)
(* task (the GGA handler) and from the supervisor; it tests is_connected    *)
(* and then writes, and the receiver task clears is_connected in between    *)
(* or not: nothing orders the three tasks.                                  *)

\* lines written to the socket in one run
MaxUplink == 3

UplinkCallers == {"handler", "supervisor"}

\* a send_gga that does not look at the flag
MayWrite_Unchecked(connected, sock) == sock /= "none"

\* if not self.is_connected or not self.socket: return
MayWrite(connected, sock) == connected /\ sock /= "none"

\* send_gga up to its test: past it, or returned
UplinkCheck(t) ==
    /\ uplink_pc[t] = "out"
    /\ Len(uplink_log) < MaxUplink
    /\ uplink_pc' = [uplink_pc EXCEPT ![t] =
                        IF MayWrite(ntrip_is_connected, socket) THEN "checked" ELSE "out"]
    /\ UNCHANGED <<uplink_log, utmVars, handshakeVars, orphanVars, faultVars>>
    /\ UNCHANGED <<ntripVars, nmeaVars, monVars, filterList, lifeVars, sinkVars, snapVars>>

\* self.socket.send(gga_sentence.encode() + b'\r\n')
UplinkWrite(t) ==
    /\ uplink_pc[t] = "checked"
    /\ uplink_pc' = [uplink_pc EXCEPT ![t] = "out"]
    /\ uplink_log' = Append(uplink_log, [by |-> t, connected |-> ntrip_is_connected])
    /\ UNCHANGED <<utmVars, handshakeVars, orphanVars, faultVars>>
    /\ UNCHANGED <<ntripVars, nmeaVars, monVars, filterList, lifeVars, sinkVars, snapVars>>

NextUplink ==
    \/ ReceiverTest \/ ReceiverRecv \/ MonitorWake \/ LifeTick
    \/ \E t \in UplinkCallers : UplinkCheck(t)
    \/ \E t \in UplinkCallers : UplinkWrite(t)

SpecUplink == InitNtrip /\ [][NextUplink]_vars

-----------------------------------------------------------------------------
(* Handlers and byte callbacks that raise.  A handler registered with       *)
(* register_callback for a type in faulty raises when it is called, and so  *)
(* does a byte callback added with add_data_callback for an endpoint in     *)
(* faulty.bytes.  What raised is followed outwards through the try          *)
(* statements around it: the one around parse_sentence, the one around the  *)
(* body of _on_serial_data and of _on_ntrip_data, and the one around each   *)
(* callback in _read_loop and _receive_loop.                                *)

\* deliveries to the byte callbacks in one run
MaxDeliveries == 3

\* an _on_serial_data without the try around parse_sentence
LeavesSentenceTry_NoTry(exc) == exc

\* lines 965-973: try: parse_sentence ... except Exception: debug log
LeavesSentenceTry(exc) == FALSE

\* lines 944-983 and 987-1004: the try around the body of the mediator's
\* byte callbacks
LeavesHandlerTry(exc) == FALSE

\* lines 550-553 and 657-660: try: callback(data) except Exception: log
LeavesCallbackTry(exc) == FALSE

\* the callback parse_sentence called for the line raises
Raises(r, bad) == \E i \in 1..Len(r.w.handlers) : r.w.handlers[i] \in bad

\* what the decoder left when the callback raised: the rolling fix is
\* updated, nothing the callback does has happened, and
\* self.current_position = position is skipped
AfterRaise(st, line, r) ==
    [st EXCEPT !.position = r.w.position,
               !.current_position = IF st.current_is_rolling /\ ~r.fresh
                                    THEN r.w.position ELSE @,
               !.raised = @ + 1,
               !.lines = Append(@,
                   [FilteredWith(line, Snapshot(st.position, st.current_position,
                                                st.last_gga_time))
                    EXCEPT !.via = "raised"])]

RECURSIVE FaultyLines(_, _, _, _, _)

\* after parse_sentence: it returned, or its callback raised and the
\* exception is caught at the sentence or goes on outwards
FaultyParsed(st, line, r, clock, connected, enabled, bad) ==
    IF ~Raises(r, bad)
    THEN FaultyLines(AfterSentence(st, line, r), clock, connected, enabled, bad)
    ELSE IF LeavesSentenceTry(TRUE)
    THEN [AfterRaise(st, line, r) EXCEPT !.propagating = TRUE]
    ELSE FaultyLines(AfterRaise(st, line, r), clock, connected, enabled, bad)

FaultyHandleLine(st, line, clock, connected, enabled, bad) ==
    IF line = <<>> THEN FaultyLines(st, clock, connected, enabled, bad)
    ELSE IF ~LineAccepted(line)
    THEN FaultyLines([st EXCEPT !.lines = Append(@, FilteredRecord(line, st))],
                     clock, connected, enabled, bad)
    ELSE FaultyParsed(st, line,
                      parse_sentence(FreshLogs(st.position, st.last_gga_time), line,
                                     clock, connected, enabled),
                      clock, connected, enabled, bad)

FaultyTakeLine(st, line_end, clock, connected, enabled, bad) ==
    FaultyHandleLine([st EXCEPT !.buf = SubSeq(st.buf, line_end + 1, Len(st.buf))],
                     Strip(SubSeq(st.buf, 1, line_end - 1)), clock, connected, enabled, bad)

\* the while loop of _on_serial_data with callbacks that may raise
FaultyLines(st, clock, connected, enabled, bad) ==
    IF Find(st.buf, "\n") = 0 THEN st
    ELSE FaultyTakeLine(st, Find(st.buf, "\n"), clock, connected, enabled, bad)

\* an exception raised in callback(data) or one that left the mediator's
\* callback reaches the loop
ReachesLoop(left_handler, extra_raises) ==
    LeavesCallbackTry(left_handler \/ extra_raises)

\* the mediator's fields and the record of the delivery; the cut of the
\* accumulator is skipped when an exception is on its way out
FaultySerialDone(st, extra_raises) ==
    /\ nmea_buffer' = (IF st.propagating THEN st.buf ELSE TrimBuffer(st.buf))
    /\ position' = st.position
    /\ current_position' = st.current_position
    /\ current_is_rolling' = st.current_is_rolling
    /\ last_gga_time' = st.last_gga_time
    /\ lastLines' = st.lines
    /\ fault_log' = Append(fault_log,
          [task |-> "serial",
           raised |-> st.raised + (IF extra_raises THEN 1 ELSE 0),
           escaped |-> ReachesLoop(LeavesHandlerTry(st.propagating), extra_raises),
           frames |-> <<>>])
    /\ read_thread' =
          (IF ReachesLoop(LeavesHandlerTry(st.propagating), extra_raises)
           THEN "finished" ELSE read_thread)

\* what the serial port delivers in one read
FaultChunks ==
    { Line(GgaSeed) \o Line(RmcSeed), Line(GgaBadChecksum) \o Line(RmcSeed),
      <<HighByte>> \o Line(GgaShort) \o SubSeq(GgaSeed, 1, 20) }

\* one turn of _read_loop: the bytes go to every callback in data_callbacks
FaultySerialRead ==
    \E data \in FaultChunks :
        /\ Len(fault_log) < MaxDeliveries
        /\ read_thread = "alive"
        /\ now' = now + 1
        /\ FaultySerialDone(
              FaultyLines([buf |-> nmea_buffer \o DecodeAscii(data),
                           position |-> position,
                           current_position |-> current_position,
                           current_is_rolling |-> current_is_rolling,
                           last_gga_time |-> last_gga_time, lines |-> <<>>,
                           raised |-> 0, propagating |-> FALSE],
                          now + 1, ntrip_is_connected, enabled_messages, faulty.nmea),
              "serial" \in faulty.bytes)
        /\ UNCHANGED <<enabled_messages, ntrip_is_connected, ntripVars, monVars, filterList,
                       sinkVars, snapVars, utmVars, handshakeVars, uplinkVars, orphanVars,
                       faulty>>
        /\ UNCHANGED <<ntripKind, is_running, started, quiet, caller, serial_conn, socket,
                       serial_stop_event, ntrip_stop_event, monitor_stop_event,
                       receive_thread, mock_thread, monitor_thread, joinLeft, stopTicks,
                       sleepLeft, recvLeft, lastSerialIo, lastNtripIo, lifeLog, startResult,
                       raised>>

\* the loop of parse_message with callbacks that may raise: the frame is
\* cut from the buffer and appended to the list before its callback is
\* called, and an exception leaves parse_message with the list
RECURSIVE FaultyParse(_, _, _)

FaultyMessage(rest, msgs, bad) ==
    IF msgs[Len(msgs)].type \in bad
    THEN [buffer |-> rest, messages |-> msgs, raised |-> TRUE]
    ELSE FaultyParse(rest, msgs, bad)

FaultyCut(b, message_data, length, msgs, bad) ==
    IF CrcMismatch(message_data)
    THEN FaultyParse(AfterCrcFailure(b, length + 6), msgs, bad)
    ELSE IF length >= 2
    THEN FaultyMessage(SubSeq(b, length + 7, Len(b)),
                       Append(msgs, [type |-> MessageType(SubSeq(message_data, 4, length + 3)),
                                     length |-> length,
                                     data |-> SubSeq(message_data, 4, length + 3),
                                     frame |-> message_data]),
                       bad)
    ELSE FaultyParse(SubSeq(b, length + 7, Len(b)), msgs, bad)

FaultyFrame(b, msgs, bad) ==
    IF Len(b) < 6 THEN [buffer |-> b, messages |-> msgs, raised |-> FALSE]
    ELSE IF Len(b) < FrameLength(b) + 6
    THEN [buffer |-> b, messages |-> msgs, raised |-> FALSE]
    ELSE FaultyCut(b, SubSeq(b, 1, FrameLength(b) + 6), FrameLength(b), msgs, bad)

FaultyAtSync(buf, start_idx, msgs, bad) ==
    IF start_idx = 0 THEN [buffer |-> <<>>, messages |-> msgs, raised |-> FALSE]
    ELSE FaultyFrame(SubSeq(buf, start_idx, Len(buf)), msgs, bad)

FaultyParse(buf, msgs, bad) ==
    IF Len(buf) < 3 THEN [buffer |-> buf, messages |-> msgs, raised |-> FALSE]
    ELSE FaultyAtSync(buf, FindSync(buf), msgs, bad)

\* the message numbers of a list of messages
Types(msgs) == [i \in 1..Len(msgs) |-> msgs[i].type]

\* the messages whose callback returned
Returned(r) ==
    IF r.raised THEN SubSeq(r.messages, 1, Len(r.messages) - 1) ELSE r.messages

\* _on_ntrip_data: the forward to the serial port, then parse_message; the
\* statistics are counted from the list parse_message returns, which there
\* is none of when it raised
FaultyNtripDone(data, sendEvent, r, extra_raises) ==
    /\ ntripIn' = ntripIn \o data
    /\ lastEvents' = NtripDataSteps(sendEvent)
    /\ serialOut' = (IF sendEvent = "send_ok" THEN serialOut \o BytesToPort(data, r.messages)
                     ELSE serialOut)
    /\ linkOk' = (linkOk /\ sendEvent = "send_ok")
    /\ parserIn' = parserIn \o data
    /\ buffer' = r.buffer
    /\ lastMsgs' = (IF r.raised THEN <<>> ELSE r.messages)
    /\ baseFixes' = RunRtcmCallbacks(Returned(r), 1, baseFixes)
    /\ rtcm_stats' = (IF r.raised THEN rtcm_stats ELSE CountMessages(r.messages, 1, rtcm_stats))
    /\ fault_log' = Append(fault_log,
          [task |-> "ntrip",
           raised |-> (IF r.raised THEN 1 ELSE 0) + (IF extra_raises THEN 1 ELSE 0),
           escaped |-> ReachesLoop(LeavesHandlerTry(r.raised), extra_raises),
           frames |-> Types(r.messages)])
    /\ receive_thread' =
          (IF ReachesLoop(LeavesHandlerTry(r.raised), extra_raises)
           THEN "finished" ELSE receive_thread)

\* what one recv returns
FaultPieces ==
    { Frame1005 \o Frame1077,
      CorruptFrame \o Garbage \o SubSeq(Frame1005, 1, 10),
      SubSeq(Frame1005, 11, Len(Frame1005)) \o Frame1077 }

\* one turn of _receive_loop: the bytes go to every callback in data_callbacks
FaultyNtripRecv ==
    \E data \in FaultPieces :
        /\ Len(fault_log) < MaxDeliveries
        /\ receive_thread = "receiving"
        /\ FaultyNtripDone(data, send_data, FaultyParse(buffer \o data, <<>>, faulty.rtcm),
                           "ntrip" \in faulty.bytes)
        /\ UNCHANGED <<wire, nSent, lastPiece, serialConfigured, serial_is_connected,
                       portFaulty, nmeaVars, monVars, filterList, sinkVars, snapVars,
                       utmVars, handshakeVars, uplinkVars, orphanVars, faulty>>
        /\ UNCHANGED <<ntripKind, is_running, started, quiet, caller, serial_conn, socket,
                       serial_stop_event, ntrip_stop_event, monitor_stop_event,
                       read_thread, mock_thread, monitor_thread, joinLeft, stopTicks,
                       sleepLeft, recvLeft, lastSerialIo, lastNtripIo, lifeLog, startResult,
                       raised>>

\* which handlers and byte callbacks raise in a run
FaultSets ==
    {[nmea |-> n, rtcm |-> r, bytes |-> b] :
        n \in {{}, {"GGA"}},
        r \in {{}, {1005}, {1005, 1077}},
        b \in {{}, {"serial", "ntrip"}}}

InitFaults ==
    /\ NtripIdle
    /\ MonitorIdle
    /\ NmeaConstructed
    /\ filterList = NoList
    /\ enabled_messages = InitEnabled(NoList)
    /\ ntrip_is_connected = TRUE
    /\ LifeStarted(TRUE, TRUE)
    /\ SinkConstructed
    /\ HeapConstructed
    /\ ExtQuiet
    /\ faulty \in FaultSets
    /\ fault_log = <<>>

NextFaults == FaultySerialRead \/ FaultyNtripRecv

SpecFaults == InitFaults /\ [][NextFaults]_vars

-----------------------------------------------------------------------------
(* start() called again.  connect() and start() assign a new thread to     *)
(* read_thread, receive_thread (mock_thread) and monitor_thread without    *)
(* looking at the one that is there; a thread that was running goes on      *)
(* running with no attribute referring to it, on the same stop flags and    *)
(* connected flags as the new one.                                          *)

\* calls of start() after the first in one run
MaxRestarts == 1

\* 1 when the thread that the attribute referred to is left running
LeftRunning(alive) == IF alive THEN 1 ELSE 0

\* everything but the lifecycle and the left-over tasks
TaskFrame ==
    UNCHANGED <<wire, nSent, lastPiece, ntripIn, serialOut, linkOk, serialConfigured,
                buffer, rtcm_stats, lastMsgs, lastEvents, parserIn, baseFixes, portFaulty,
                now, nmea_buffer, position, current_position, last_gga_time,
                enabled_messages, current_is_rolling, lastLines, monVars, filterList,
                ntripKind, sinkVars, snapVars, utmVars, handshakeVars, uplinkVars,
                faultVars>>

\* RTKPositioningSystem.start on a mediator that was started before,
\* stopped since or not
StartAgain ==
    \E serial_ok \in BOOLEAN, ntrip_ok \in BOOLEAN :
        /\ caller = "idle"
        /\ started
        /\ restarts < MaxRestarts
        /\ restarts' = restarts + 1
        /\ (~serialConfigured => serial_ok)
        /\ (ntripKind /= "real" => ntrip_ok)
        /\ serial_is_connected' = (IF serialConfigured /\ serial_ok THEN TRUE
                                   ELSE serial_is_connected)
        /\ serial_conn' = (IF serialConfigured /\ serial_ok THEN "open" ELSE serial_conn)
        /\ serial_stop_event' = (IF serialConfigured /\ serial_ok THEN FALSE ELSE serial_stop_event)
        /\ read_thread' = (IF serialConfigured /\ serial_ok THEN "alive" ELSE read_thread)
        /\ orphan_readers' = orphan_readers +
              (IF serialConfigured /\ serial_ok THEN LeftRunning(read_thread = "alive") ELSE 0)
        /\ ntrip_is_connected' = (IF ntripKind /= "none" /\ ntrip_ok THEN TRUE
                                  ELSE ntrip_is_connected)
        /\ socket' = (IF ntripKind = "real" THEN "open" ELSE socket)
        /\ ntrip_stop_event' = (IF ntripKind /= "none" /\ ntrip_ok THEN FALSE ELSE ntrip_stop_event)
        /\ receive_thread' = (IF ntripKind = "real" /\ ntrip_ok THEN "testing" ELSE receive_thread)
        /\ mock_thread' = (IF ntripKind = "mock" THEN "alive" ELSE mock_thread)
        /\ orphan_receivers' = orphan_receivers +
              (IF ntripKind /= "none" /\ ntrip_ok THEN LeftRunning(NtripTaskAlive) ELSE 0)
        /\ IF StartSucceeds(serialConfigured, ntripKind, serial_ok, ntrip_ok)
           THEN /\ is_running' = TRUE
                /\ monitor_stop_event' = FALSE
                /\ monitor_thread' = "alive"
                /\ sleepLeft' = 0
                /\ orphan_monitors' = orphan_monitors + LeftRunning(monitor_thread = "alive")
                /\ startResult' = "True"
           ELSE /\ startResult' = "False"
                /\ UNCHANGED <<is_running, monitor_stop_event, monitor_thread, sleepLeft,
                               orphan_monitors>>
        /\ started' = TRUE
        /\ quiet' = FALSE
        /\ lifeLog' = StartSteps(serialConfigured, ntripKind, serial_ok, ntrip_ok)
        /\ UNCHANGED <<caller, joinLeft, stopTicks, recvLeft, lastSerialIo, lastNtripIo, raised>>
        /\ TaskFrame

\* the life variables a left-over task does not write
OrphanFrame ==
    UNCHANGED <<serial_is_connected, is_running, started, quiet, caller, serial_conn, socket,
                serial_stop_event, ntrip_stop_event, monitor_stop_event, read_thread,
                receive_thread, mock_thread, monitor_thread, joinLeft, stopTicks, sleepLeft,
                recvLeft, lastSerialIo, lastNtripIo, lifeLog, startResult, raised, restarts>>

\* a left-over _read_loop ends: its loop test is false, or the port raised
OrphanReaderEnds ==
    /\ orphan_readers > 0
    /\ orphan_readers' = orphan_readers - 1
    /\ UNCHANGED <<ntrip_is_connected, orphan_receivers, orphan_monitors>>
    /\ OrphanFrame
    /\ TaskFrame

\* a left-over _receive_loop ends (its loop test is false, or recv gave
\* nothing or raised) and clears is_connected; a left-over _mock_loop ends
\* when stop_event is set
OrphanReceiverEnds ==
    /\ orphan_receivers > 0
    /\ ntripKind = "mock" => ntrip_stop_event
    /\ orphan_receivers' = orphan_receivers - 1
    /\ ntrip_is_connected' = (IF ntripKind = "real" THEN FALSE ELSE ntrip_is_connected)
    /\ UNCHANGED <<orphan_readers, orphan_monitors>>
    /\ OrphanFrame
    /\ TaskFrame

\* a left-over _monitor_loop finds monitor_stop_event set
OrphanMonitorEnds ==
    /\ orphan_monitors > 0
    /\ monitor_stop_event
    /\ orphan_monitors' = orphan_monitors - 1
    /\ UNCHANGED <<ntrip_is_connected, orphan_readers, orphan_receivers>>
    /\ OrphanFrame
    /\ TaskFrame

NextTasks ==
    \/ StartCall \/ StartAgain \/ StopBegin \/ StopSerial \/ StopNtrip \/ StopReturn
    \/ ReaderExit \/ ReaderIo \/ ReceiverTest \/ ReceiverRecv \/ MockStep \/ MonitorWake
    \/ LifeTick
    \/ OrphanReaderEnds \/ OrphanReceiverEnds \/ OrphanMonitorEnds

SpecTasks == InitLife /\ [][NextTasks]_vars

-----------------------------------------------------------------------------
(* The position sink: PositionHandler.handle_position.  A fix is given by   *)
(* what the sink looks at: its kind, its quality and the msg_type entry of  *)
(* its extra_info ("" for an empty extra_info).                             *)

\* calls of handle_position in one run
MaxHandled == 2

\* the fixes handed to the sink
SinkFixes ==
    [type : {"ROVER", "BASE"}, fix_quality : {0, 1, 4}, msg_type : {"", "SYSRTS", "GSV"}]

\* position.extra_info and position.extra_info.get('msg_type') == 'SYSRTS'
HasSysInfo(fix) == fix.msg_type = "SYSRTS"

\* a sink that filters by quality before it looks at the kind
SinkRoute_QualityFirst(fix) ==
    IF fix.fix_quality = 0 /\ ~HasSysInfo(fix) THEN "drop"
    ELSE IF fix.type = "BASE" THEN "base"
    ELSE "record"

\* the branch handle_position takes: the base branch, the early return for
\* an invalid fix, or the log and the map
SinkRoute(fix) ==
    IF fix.type = "BASE" THEN "base"
    ELSE IF fix.fix_quality = 0 /\ ~HasSysInfo(fix) THEN "drop"
    ELSE "record"

\* _save_to_log: a line is appended unless the file cannot be written, which
\* is logged and ends there
SaveToLog(log, fix, write_ok) == IF write_ok THEN Append(log, fix) ELSE log

\* PositionHandler.update_base_position(latitude, longitude)
UpdateBase(marker, fix, gui) == IF gui THEN fix ELSE marker

\* if self.visualizer and position.fix_quality != FixQuality.INVALID:
\*     self.visualizer.update_position(position)
UpdateTrack(shown, fix, gui) ==
    IF gui /\ fix.fix_quality /= 0 THEN Append(shown, fix) ELSE shown

\* a handler with or without its map window
InitSink ==
    /\ NtripIdle
    /\ NmeaConstructed
    /\ filterList = NoList
    /\ enabled_messages = InitEnabled(NoList)
    /\ ntrip_is_connected = TRUE
    /\ MonitorIdle
    /\ LifeStarted(TRUE, TRUE)
    /\ enable_gui \in BOOLEAN
    /\ sink_log = <<>>
    /\ base_marker = None
    /\ track = <<>>
    /\ lastHandled = [n |-> 0]
    /\ HeapConstructed
    /\ ExtIdle

\* PositionHandler.handle_position(position); write_ok is whether the log
\* file can be opened and written
HandlePosition ==
    \E fix \in SinkFixes, write_ok \in BOOLEAN :
        /\ lastHandled.n < MaxHandled
        /\ lastHandled' = [n |-> lastHandled.n + 1, fix |-> fix, route |-> SinkRoute(fix),
                           write_ok |-> write_ok]
        /\ base_marker' = IF SinkRoute(fix) = "base"
                          THEN UpdateBase(base_marker, fix, enable_gui) ELSE base_marker
        /\ sink_log' = IF SinkRoute(fix) = "record"
                       THEN SaveToLog(sink_log, fix, write_ok) ELSE sink_log
        /\ track' = IF SinkRoute(fix) = "record"
                    THEN UpdateTrack(track, fix, enable_gui) ELSE track
        /\ UNCHANGED <<enable_gui, ntripVars, nmeaVars, monVars, filterList, lifeVars, snapVars, extVars>>

NextSink == HandlePosition

SpecSink == InitSink /\ [][NextSink]_vars

-----------------------------------------------------------------------------
(* Fix records as objects.  parse_gga binds NMEAParser.position to a new    *)
(* GPSPosition; parse_rmc and parse_gll assign to the fields of the object  *)
(* it is bound to, one statement at a time, and the mediator's              *)
(* current_position, the handlers, the sink and the callers of              *)
(* get_position are given that object, not a copy.  The serial task runs    *)
(* beside a reader thread that calls get_position and reads the fields.     *)

\* sentences the serial task parses in one run
MaxSentences == 2

GgaSentences == {GgaSeed, GgaRtk}
MergeSentences == {RmcSeed, GllSeed}

\* the attributes parse_rmc assigns, in the order of its statements
RmcFields == <<"latitude", "longitude", "speed", "course", "timestamp">>
\* and those of parse_gll
GllFields == <<"latitude", "longitude", "timestamp", "fix_quality">>

\* the type of a sentence: the letters after the talker
SentenceType(sentence) == SubSeq(sentence, 4, 6)

AssignedFields(type) == IF type = RMC THEN RmcFields ELSE GllFields

\* the assignments that take the rolling fix from old to target; none when
\* the decoder returned before them
Assignments(fields, old, target) ==
    IF target = old THEN <<>>
    ELSE [i \in 1..Len(fields) |-> [field |-> fields[i], value |-> target[fields[i]]]]

\* self.position.<field> = value
AssignField(objects, id, a) == [objects EXCEPT ![id][a.field] = a.value]

\* an object handed out, with its value at the time
Emit(id, value) == [id |-> id, was |-> value]

\* the mediator's fields as values
HeapView ==
    /\ position' = heap'[parser_position']
    /\ current_position' = heap'[mediator_current']
    /\ current_is_rolling' = (mediator_current' = parser_position')

InitObjects ==
    /\ NtripIdle
    /\ NmeaConstructed
    /\ filterList = NoList
    /\ enabled_messages = InitEnabled(NoList)
    /\ ntrip_is_connected = TRUE
    /\ MonitorIdle
    /\ LifeStarted(TRUE, TRUE)
    /\ SinkConstructed
    /\ HeapConstructed
    /\ ExtIdle

\* the mediator after parse_sentence returned r for a GGA: the GGA handler
\* and the sink were given the rolling fix, then current_position
GgaCommitted(r) ==
    /\ heap' = IF r.fresh THEN Append(heap, r.result) ELSE heap
    /\ parser_position' = IF r.fresh THEN Len(heap) + 1 ELSE parser_position
    /\ mediator_current' = parser_position'
    /\ emitted' = emitted \cup {Emit(parser_position', r.result)}
    /\ completed' = completed \cup {r.result}
    /\ last_gga_time' = r.w.last_gga_time

\* the serial task takes a GGA through parse_sentence
ParseGga ==
    \E sentence \in GgaSentences :
        /\ parsing = "idle"
        /\ now < MaxSentences
        /\ now' = now + 1
        /\ GgaCommitted(parse_sentence(FreshLogs(heap[parser_position], last_gga_time),
                                       sentence, now + 1, ntrip_is_connected,
                                       enabled_messages))
        /\ UNCHANGED <<parsing, assigning, reader_ref, reader_copy, nmea_buffer,
                       enabled_messages, ntrip_is_connected, lastLines, ntripVars, monVars,
                       filterList, lifeVars, sinkVars, extVars>>
        /\ HeapView

\* the serial task enters parse_rmc or parse_gll and converts the fields
MergeBegin ==
    \E sentence \in MergeSentences :
        /\ parsing = "idle"
        /\ now < MaxSentences
        /\ now' = now + 1
        /\ parsing' = (IF SentenceType(sentence) = RMC THEN "RMC" ELSE "GLL")
        /\ assigning' =
              Assignments(AssignedFields(SentenceType(sentence)), heap[parser_position],
                          parse_sentence(FreshLogs(heap[parser_position], last_gga_time),
                                         sentence, now + 1, ntrip_is_connected,
                                         enabled_messages).w.position)
        /\ UNCHANGED <<heap, parser_position, mediator_current, emitted, reader_ref,
                       reader_copy, completed, nmea_buffer, position, current_position,
                       last_gga_time, enabled_messages, ntrip_is_connected,
                       current_is_rolling, lastLines, ntripVars, monVars, filterList,
                       lifeVars, sinkVars, extVars>>

\* one assignment statement of parse_rmc or parse_gll
MergeAssign ==
    /\ assigning /= <<>>
    /\ heap' = AssignField(heap, parser_position, Head(assigning))
    /\ assigning' = Tail(assigning)
    /\ UNCHANGED <<parser_position, mediator_current, parsing, emitted, reader_ref,
                   reader_copy, completed, now, nmea_buffer, last_gga_time,
                   enabled_messages, ntrip_is_connected, lastLines, ntripVars, monVars,
                   filterList, lifeVars, sinkVars, extVars>>
    /\ HeapView

\* the decoder returns self.position: the RMC handler is given it (GLL has
\* none), then self.current_position = position
MergeEnd ==
    /\ parsing /= "idle"
    /\ assigning = <<>>
    /\ parsing' = "idle"
    /\ mediator_current' = parser_position
    /\ emitted' = IF parsing = "RMC"
                  THEN emitted \cup {Emit(parser_position, heap[parser_position])}
                  ELSE emitted
    /\ completed' = completed \cup {heap[parser_position]}
    /\ UNCHANGED <<heap, parser_position, assigning, reader_ref, reader_copy, now,
                   nmea_buffer, last_gga_time, enabled_messages, ntrip_is_connected,
                   lastLines, ntripVars, monVars, filterList, lifeVars, sinkVars, extVars>>
    /\ HeapView

\* the reader thread calls get_position(): return self.current_position
ReaderGet ==
    /\ reader_ref' = mediator_current
    /\ emitted' = emitted \cup {Emit(mediator_current, heap[mediator_current])}
    /\ UNCHANGED <<heap, parser_position, mediator_current, parsing, assigning, reader_copy,
                   completed, nmeaVars, ntripVars, monVars, filterList, lifeVars, sinkVars, extVars>>

\* the reader thread reads the fields of the fix it was given
ReaderRead ==
    /\ reader_ref /= 0
    /\ reader_copy' = heap[reader_ref]
    /\ UNCHANGED <<heap, parser_position, mediator_current, parsing, assigning, emitted,
                   reader_ref, completed, nmeaVars, ntripVars, monVars, filterList, lifeVars,
                   sinkVars, extVars>>

NextObjects ==
    ParseGga \/ MergeBegin \/ MergeAssign \/ MergeEnd \/ ReaderGet \/ ReaderRead

SpecObjects == InitObjects /\ [][NextObjects]_vars

-----------------------------------------------------------------------------
(* Properties of the downstream path *)

SendEvents == {"send_ok", "send_refused", "send_error"}

\* b is a suffix of a
EndsWith(a, b) ==
    Len(b) <= Len(a) /\ SubSeq(a, Len(a) - Len(b) + 1, Len(a)) = b

\* C1: while a connected serial endpoint is attached (every call found the
\* port open and its write completed), the bytes written to the port are
\* exactly the bytes received from the caster, in order, whatever the chunk
\* boundaries and whatever the RTCM parser made of them.
C1_BytePassthrough == linkOk => serialOut = ntripIn

\* a stream of a false sync and a frame, received over a healthy link in
\* several chunks, of which the parser surfaced nothing
C1_Witness ==
    /\ linkOk
    /\ wire = <<>>
    /\ serialOut = FalseSync \o Frame1077
    /\ lastMsgs = <<>>
    /\ rtcm_stats = <<>>
    /\ Len(buffer) < Len(ntripIn)

\* C2: in every call of _on_ntrip_data the forward to the serial endpoint
\* comes before parse_message, no forward comes after it, and the parser is
\* fed the chunk whether the write succeeded, failed or no serial endpoint
\* is configured: the parser has been fed every byte received.
C2_WriteBeforeParse ==
    /\ parserIn = ntripIn
    /\ lastEvents /= <<>> =>
         /\ lastEvents[Len(lastEvents)] = "parse"
         /\ \A i \in 1..(Len(lastEvents) - 1) : lastEvents[i] /= "parse"
         /\ serialConfigured => \E i \in 1..(Len(lastEvents) - 1) : lastEvents[i] \in SendEvents
         /\ ~serialConfigured => \A i \in 1..Len(lastEvents) : lastEvents[i] \notin SendEvents

\* a chunk whose serial write raised and whose frame the parser surfaced
C2_Witness ==
    /\ lastEvents = <<"send_error", "parse">>
    /\ lastMsgs /= <<>>
    /\ serialOut = <<>>

\* C3: every frame parse_message returns has a CRC-24Q over header and
\* payload equal to the big-endian value of its three trailing bytes, and
\* its reported length is its payload size, the wire size minus 6.
C3_SurfacedFramesValid ==
    \A i \in 1..Len(lastMsgs) :
        LET m == lastMsgs[i] IN
        /\ Len(m.frame) >= 6
        /\ crc24(SubSeq(m.frame, 1, Len(m.frame) - 3)) = UnpackCrc(m.frame)
        /\ m.length = Len(m.frame) - 6
        /\ m.length = Len(m.data)
        /\ m.data = SubSeq(m.frame, 4, Len(m.frame) - 3)

\* a frame surfaced from a stream that also held a frame with a damaged CRC
C3_Witness ==
    /\ lastMsgs /= <<>>
    /\ ntripIn = CorruptFrame \o Frame1077

\* C4 (as claimed): a CRC-valid frame that has been received in full is
\* never lost to a CRC mismatch of a false sync before it: once its last
\* byte has arrived it has been surfaced, or the accumulator still holds all
\* of it.
C4_ValidFrameNotLost ==
    (wire = <<>> /\ lastPiece \in ValidFrames) =>
        \/ \E i \in 1..Len(lastMsgs) : lastMsgs[i].frame = lastPiece
        \/ EndsWith(buffer, lastPiece)

-----------------------------------------------------------------------------
(* Properties of the NMEA path *)

RECURSIVE CountChar(_, _)
CountChar(s, c) ==
    IF s = <<>> THEN 0 ELSE (IF Head(s) = c THEN 1 ELSE 0) + CountChar(Tail(s), c)

\* the value of a hexadecimal digit in either case, -1 for any other character
HexValue(c) ==
    IF \E i \in 1..16 : HexDigits[i] = Upper(c)
    THEN (CHOOSE i \in 1..16 : HexDigits[i] = Upper(c)) - 1
    ELSE -1

\* s is '$', a span, one '*', and two hex digits that spell the XOR of the span
WellChecksummed(s) ==
    /\ s /= <<>> /\ Head(s) = "$"
    /\ CountChar(s, "*") = 1
    /\ Len(s) = Find(s, "*") + 2
    /\ HexValue(s[Len(s) - 1]) >= 0 /\ HexValue(s[Len(s)]) >= 0
    /\ 16 * HexValue(s[Len(s) - 1]) + HexValue(s[Len(s)])
         = XorChars(SubSeq(s, 2, Find(s, "*") - 1), 1, 0)

\* the fields of a sentence and its type, as a reader of the sentence sees them
FieldsOf(line) == Split(Split(Strip(line), "*")[1], ",")
TypeOf(line) == Slice(FieldsOf(line)[1], 3, Len(FieldsOf(line)[1]))

\* a record of lastLines shows a fix or a handler call
Surfaced(rec) == rec.result /= None \/ rec.handlers /= <<>> \/ rec.sink /= <<>>

\* C5: every sentence that produces a fix or a handler call, fed through
\* _on_serial_data or given to parse_sentence, starts with '$', contains
\* exactly one '*', and ends in two hex digits (either case) equal to the
\* XOR of the characters strictly between '$' and '*'.
C5_SurfacedSentencesChecksummed ==
    \A i \in 1..Len(lastLines) :
        Surfaced(lastLines[i]) => WellChecksummed(Strip(lastLines[i].line))

\* a sentence with a lower-case checksum came through the serial path and
\* produced a fix
C5_Witness ==
    \E i \in 1..Len(lastLines) :
        /\ lastLines[i].via = "serial"
        /\ lastLines[i].line = RmcSeedLower
        /\ lastLines[i].result /= None
        /\ lastLines[i].handlers = <<"RMC">>

\* a '$' sentence with a '*' whose checksum does not match
ChecksumMismatch(line) ==
    LET s == Strip(line)
    IN s /= <<>> /\ Head(s) = "$" /\ Find(s, "*") /= 0 /\ ~WellChecksummed(s)

\* C6: a sentence whose checksum does not match surfaces nothing:
\* parse_sentence returns None, no handler runs, and the rolling fix, the
\* mediator's current fix and last_gga_time are as before; the sentences
\* after it are still processed (no complete line stays in the accumulator,
\* each record starts from the state the one before left, and a valid
\* enabled sentence that follows a rejected one yields its fix).
C6_BadChecksumDropped ==
    /\ \A i \in 1..Len(lastLines) :
          ChecksumMismatch(lastLines[i].line) =>
              /\ lastLines[i].result = None
              /\ lastLines[i].handlers = <<>>
              /\ lastLines[i].sink = <<>>
              /\ lastLines[i].uplink = <<>>
              /\ lastLines[i].after = lastLines[i].before
    /\ \A i \in 2..Len(lastLines) : lastLines[i].before = lastLines[i - 1].after
    /\ lastLines /= <<>> =>
          lastLines[Len(lastLines)].after
              = Snapshot(position, current_position, last_gga_time)
    /\ Find(nmea_buffer, "\n") = 0
    /\ \A i \in 2..Len(lastLines) :
          ( /\ ChecksumMismatch(lastLines[i - 1].line)
            /\ WellChecksummed(lastLines[i].line)
            /\ TypeOf(lastLines[i].line) \in enabled_messages )
          => lastLines[i].result /= None

\* the seed GGA with '*00' was dropped and the RMC after it, in the same
\* read, was parsed
C6_Witness ==
    /\ Len(lastLines) = 2
    /\ lastLines[1].line = GgaBadChecksum
    /\ lastLines[1].result = None
    /\ lastLines[2].line = RmcSeed
    /\ lastLines[2].result /= None
    /\ lastLines[2].result.speed = [m |-> 414848, e |-> 4]

\* ddmm.mmmm read as text: the last two digits before the point and the
\* fraction are minutes, the digits before them degrees; in arc-minutes,
\* negative for S and W
ExpectedArcMinutes(coord, hemisphere) ==
    LET k == Find(coord, ".")
        ip == IF k = 0 THEN coord ELSE SubSeq(coord, 1, k - 1)
        fp == IF k = 0 THEN <<>> ELSE SubSeq(coord, k + 1, Len(coord))
        deg == DigitsValue(SubSeq(ip, 1, Len(ip) - 2))
        min == DigitsValue(SubSeq(ip, Len(ip) - 1, Len(ip)) \o fp)
        m == deg * 60 * Pow10(Len(fp)) + min
    IN Dec(IF hemisphere \in {<<"S">>, <<"W">>} THEN -m ELSE m, Len(fp))

\* a coordinate field of the form d..dmm[.m..m] with a hemisphere letter
WellFormedCoordinate(coord, hemisphere, letters) ==
    LET k == Find(coord, ".")
        ip == IF k = 0 THEN coord ELSE SubSeq(coord, 1, k - 1)
        fp == IF k = 0 THEN <<>> ELSE SubSeq(coord, k + 1, Len(coord))
    IN Len(ip) >= 2 /\ AllDigits(ip) /\ AllDigits(fp) /\ hemisphere \in letters

\* a GGA whose fields are what the format says: a time of day, coordinates,
\* a quality of the FixQuality enumeration, and numbers
WellFormedGga(f) ==
    /\ Len(f) >= 15
    /\ TimeOfDay(f[2]).ok
    /\ WellFormedCoordinate(f[3], f[4], {<<"N">>, <<"S">>})
    /\ WellFormedCoordinate(f[5], f[6], {<<"E">>, <<"W">>})
    /\ ParseInt(f[7]).ok /\ ParseInt(f[7]).v \in 0..8
    /\ ParseInt(f[8]).ok
    /\ ParseFloat(f[9]).ok
    /\ ParseFloat(f[10]).ok
    /\ FloatField(f[14]).ok
    /\ IntField(f[15]).ok

\* the records of lastLines that went through parse_sentence with a
\* checksum-valid sentence of the given type
ParsedAs(rec, type) ==
    /\ rec.via /= "filtered"
    /\ WellChecksummed(Strip(rec.line))
    /\ TypeOf(rec.line) = type
    /\ type \in enabled_messages

\* C7: parsing a checksum-valid, well-formed GGA of at least 15 fields
\* yields a fix whose latitude and longitude are the ddmm.mmmm fields
\* converted to degrees + minutes / 60 (held here in arc-minutes), negative
\* for S and W, and whose quality, satellites, HDOP and altitude are the
\* values of their fields; for the seed GGA the fix has quality GPS_FIX (1),
\* latitude 48.1173 degrees (2887.038 arc-minutes), longitude 691
\* arc-minutes (11.51667 degrees to five places), altitude 545.4,
\* 8 satellites and HDOP 0.9.
C7_GgaFields ==
    \A i \in 1..Len(lastLines) :
        LET rec == lastLines[i]
            f == FieldsOf(rec.line)
        IN (ParsedAs(rec, GGA) /\ WellFormedGga(f)) =>
              /\ rec.result /= None
              /\ rec.result = rec.after.position
              /\ rec.result.latitude = ExpectedArcMinutes(f[3], f[4])
              /\ rec.result.longitude = ExpectedArcMinutes(f[5], f[6])
              /\ rec.result.fix_quality = ParseInt(f[7]).v
              /\ rec.result.satellites_used = ParseInt(f[8]).v
              /\ rec.result.hdop = ParseFloat(f[9]).v
              /\ rec.result.altitude = ParseFloat(f[10]).v
              /\ (Strip(rec.line) = GgaSeed =>
                    /\ rec.result.fix_quality = 1
                    /\ rec.result.latitude = [m |-> 2887038, e |-> 3]
                    /\ rec.result.latitude.m * 10 = 481173 * 60
                    /\ rec.result.longitude = [m |-> 691, e |-> 0]
                    /\ rec.result.longitude.m * 100000 - 1151667 * 60 < 60
                    /\ 1151667 * 60 - rec.result.longitude.m * 100000 < 60
                    /\ rec.result.altitude = [m |-> 5454, e |-> 1]
                    /\ rec.result.satellites_used = 8
                    /\ rec.result.hdop = [m |-> 9, e |-> 1])

\* the GGA of the southern and western hemispheres was parsed after the seed
\* GGA had been
C7_Witness ==
    /\ \E i \in 1..Len(lastLines) :
          /\ lastLines[i].line = GgaRtk
          /\ lastLines[i].result /= None
          /\ lastLines[i].result.latitude = [m |-> -20265, e |-> 1]
          /\ lastLines[i].result.longitude = [m |-> -423025, e |-> 2]
          /\ lastLines[i].result.fix_quality = 4
          /\ lastLines[i].before.position.latitude = [m |-> 2887038, e |-> 3]
          /\ lastLines[i].before.position.fix_quality = 1

\* an RMC whose fields are what the format says
WellFormedRmc(f) ==
    /\ Len(f) >= 12
    /\ WellFormedCoordinate(f[4], f[5], {<<"N">>, <<"S">>})
    /\ WellFormedCoordinate(f[6], f[7], {<<"E">>, <<"W">>})
    /\ ParseFloat(f[8]).ok
    /\ ParseFloat(f[9]).ok
    /\ RmcTimestamp(f[10], f[2], 0).ok

\* the fields of a fix an RMC must not touch
KeptByRmc(fix) ==
    [fix_quality |-> fix.fix_quality, altitude |-> fix.altitude,
     satellites_used |-> fix.satellites_used, hdop |-> fix.hdop, age |-> fix.age,
     stn_id |-> fix.stn_id, type |-> fix.type]

\* C8: a well-formed RMC with status 'A' gives the rolling fix its position,
\* its speed (knots x 1.852), its course and a new timestamp, and leaves
\* quality, altitude, satellites, HDOP, age and station id as they were; an
\* RMC with any other status leaves the whole rolling fix as it was.
C8_RmcMerge ==
    \A i \in 1..Len(lastLines) :
        LET rec == lastLines[i]
            f == FieldsOf(rec.line)
            old == rec.before.position
            new == rec.after.position
        IN (ParsedAs(rec, RMC) /\ WellFormedRmc(f)) =>
              IF f[3] = <<"A">>
              THEN /\ rec.result = new
                   /\ KeptByRmc(new) = KeptByRmc(old)
                   /\ new.latitude = ExpectedArcMinutes(f[4], f[5])
                   /\ new.longitude = ExpectedArcMinutes(f[6], f[7])
                   /\ new.speed = Dec(ParseFloat(f[8]).v.m * 1852, ParseFloat(f[8]).v.e + 3)
                   /\ new.course = ParseFloat(f[9]).v
                   /\ new.timestamp.kind = "date"
                   /\ (Strip(rec.line) \in {RmcSeed, RmcSeedLower} =>
                         /\ new.speed = [m |-> 414848, e |-> 4]
                         /\ new.course = [m |-> 844, e |-> 1])
              ELSE new = old

\* after the seed GGA, one read brought the seed RMC and then the RMC with
\* status V: the first changed position, speed, course and timestamp of the
\* GGA's fix and kept its quality and altitude, the second changed nothing
C8_Witness ==
    /\ Len(lastLines) = 2
    /\ lastLines[1].line = RmcSeed
    /\ lastLines[1].before.position.fix_quality = 1
    /\ lastLines[1].before.position.altitude = [m |-> 5454, e |-> 1]
    /\ lastLines[1].before.position.timestamp.kind = "today"
    /\ lastLines[1].after.position.fix_quality = 1
    /\ lastLines[1].after.position.speed = [m |-> 414848, e |-> 4]
    /\ lastLines[1].after.position.timestamp.kind = "date"
    /\ lastLines[2].line = RmcVoid
    /\ lastLines[2].result = lastLines[1].after.position
    /\ position = lastLines[1].after.position

\* C9 (as claimed): the seed RMC, date 230394 and time 123519, gives the fix
\* the timestamp 1994-03-23T12:35:19.
C9_RmcTimestamp1994 ==
    \A i \in 1..Len(lastLines) :
        ( /\ Strip(lastLines[i].line) \in {RmcSeed, RmcSeedLower}
          /\ lastLines[i].result /= None )
        => lastLines[i].result.timestamp = TimeFull(1994, 3, 23, 12, 35, 19)

\* the sentence up to its '*', which is what ','.join(fields) spells
UpToStar(line) == SubSeq(Strip(line), 1, Find(Strip(line), "*") - 1)

\* the GGA handler ran for a record of lastLines
HasGgaHandler(rec) == \E k \in 1..Len(rec.handlers) : rec.handlers[k] = "GGA"

C13_UplinkFullSentence ==
    \A i \in 1..Len(lastLines) :
        \A k \in 1..Len(lastLines[i].uplink) :
            /\ Len(lastLines[i].uplink[k]) > 2
            /\ SubSeq(lastLines[i].uplink[k], Len(lastLines[i].uplink[k]) - 1,
                      Len(lastLines[i].uplink[k])) = CRLF
            /\ WellChecksummed(SubSeq(lastLines[i].uplink[k], 1,
                                      Len(lastLines[i].uplink[k]) - 2))
            /\ TypeOf(lastLines[i].uplink[k]) = GGA

\* C19: a checksum-valid sentence whose type is not enabled yields nothing:
\* parse_sentence returns None, no handler runs, nothing goes to the sink
\* or upstream, and the rolling fix, the mediator's current fix and
\* last_gga_time are as before; whatever yields a fix or a handler call has
\* an enabled type.
C19_DisabledTypeDropped ==
    \A i \in 1..Len(lastLines) :
        /\ ( /\ WellChecksummed(Strip(lastLines[i].line))
             /\ TypeOf(lastLines[i].line) \notin enabled_messages )
           => /\ lastLines[i].result = None
              /\ lastLines[i].handlers = <<>>
              /\ lastLines[i].sink = <<>>
              /\ lastLines[i].uplink = <<>>
              /\ lastLines[i].after = lastLines[i].before
        /\ (Surfaced(lastLines[i]) => TypeOf(lastLines[i].line) \in enabled_messages)

\* with GGA alone enabled, the seed GGA gave a fix and the seed RMC, read
\* after it, gave none and left the fix as it was
C19_Witness ==
    /\ enabled_messages = {GGA}
    /\ position.fix_quality = 1
    /\ position.speed = DecZero
    /\ Len(lastLines) = 2
    /\ lastLines[1].via = "serial"
    /\ lastLines[1].line = RmcSeed
    /\ lastLines[1].result = None
    /\ lastLines[1].handlers = <<>>
    /\ lastLines[1].before.position.fix_quality = 1

\* C20 (as claimed): after construction with a list and after every
\* set_nmea_message_filter with a list, the enabled set is the supported
\* types of that list, and all supported types after construction with no
\* list.
C20_EnabledIsSupportedOfList ==
    enabled_messages =
        IF filterList.given
        THEN {msg \in SetOf(filterList.list) : msg \in {GGA, RMC, GLL}}
        ELSE {GGA, RMC, GLL}

\* the frames a stream of well-formed frames consists of, cut at the length
\* each header gives; an incomplete frame at the end is left out
RECURSIVE WholeFrames(_)
WholeFrames(bytes) ==
    IF Len(bytes) < 6 \/ Len(bytes) < FrameLength(bytes) + 6 THEN <<>>
    ELSE <<SubSeq(bytes, 1, FrameLength(bytes) + 6)>>
         \o WholeFrames(SubSeq(bytes, FrameLength(bytes) + 7, Len(bytes)))

\* how many of the frames have a payload of two bytes or more and type t
FramesOfType(frames, t) ==
    Cardinality({i \in 1..Len(frames) :
                    /\ Len(frames[i]) >= 8
                    /\ MessageType(SubSeq(frames[i], 4, Len(frames[i]) - 3)) = t})

\* rtcm_stats.get(t, 0)
StatOf(stats, t) == IF t \in DOMAIN stats THEN stats[t] ELSE 0

\* the types on the wire
StatTypes == {0, 1077}

\* the bytes parse_message is given in this step
NewBytes == SubSeq(parserIn', Len(parserIn) + 1, Len(parserIn'))

\* C24: every RTCM frame that passes CRC, whatever its type (type 0 and
\* payloads shorter than 2 bytes included), is returned by parse_message
\* and adds exactly one to the statistics count of its type; the counts
\* change in no other way and never decrease.
C24_EveryFrameCounted ==
    /\ [][parserIn' /= parserIn
            => Len(lastMsgs') = Len(WholeFrames(buffer \o NewBytes))]_vars
    /\ [](\A t \in StatTypes : StatOf(rtcm_stats, t) = FramesOfType(WholeFrames(parserIn), t))
    /\ [][\A t \in DOMAIN rtcm_stats :
             t \in DOMAIN rtcm_stats' /\ rtcm_stats'[t] >= rtcm_stats[t]]_vars

-----------------------------------------------------------------------------
(* Properties of the supervisor *)

C11_StampOnlyByGga ==
    [][ /\ (last_gga_time' /= last_gga_time =>
              /\ received' /= received
              /\ last_gga_time' = now'
              /\ \E i \in 1..Len(lastLines') :
                    /\ HasGgaHandler(lastLines'[i])
                    /\ lastLines'[i].after.last_gga_time = last_gga_time')
        /\ (received' /= received =>
              \A i \in 1..Len(lastLines') :
                  HasGgaHandler(lastLines'[i]) => lastLines'[i].after.last_gga_time = now')
        /\ (lastTick' /= lastTick => last_gga_time' = last_gga_time) ]_vars

\* a GGA of invalid quality stamped last_gga_time, and a later tick sent
\* the default GGA and left the stamp at the GGA's arrival
C11_Witness ==
    /\ lastTick /= NoTick
    /\ lastTick.uplink = <<default_gga \o CRLF>>
    /\ Len(lastLines) = 1
    /\ lastLines[1].line = GgaInvalid
    /\ HasGgaHandler(lastLines[1])
    /\ ggaArrivedAt > 0
    /\ last_gga_time = ggaArrivedAt
    /\ lastTick.at > last_gga_time + KeepAliveSeconds * TicksPerSecond

-----------------------------------------------------------------------------
(* Properties of the lifecycle *)

\* lifeLog holds the steps of a start()
StartLogged ==
    /\ lifeLog /= <<>>
    /\ lifeLog[1].step \in {"serial.connect", "ntrip.connect", "monitor.spawn"}

\* lifeLog holds the steps of a stop() that has returned
StopLogged ==
    /\ lifeLog /= <<>>
    /\ lifeLog[Len(lifeLog)].step = "stop.return"

HasStep(name) == \E i \in DOMAIN lifeLog : lifeLog[i].step = name

StepOk(name) == \E i \in DOMAIN lifeLog : lifeLog[i].step = name /\ lifeLog[i].ok

StepFailed(name) == \E i \in DOMAIN lifeLog : lifeLog[i].step = name /\ ~lifeLog[i].ok

\* every step named a comes before every step named b
Before(a, b) ==
    \A i \in DOMAIN lifeLog, j \in DOMAIN lifeLog :
        lifeLog[i].step = a /\ lifeLog[j].step = b => i < j

\* C14: start() performs Serial.connect, then NTRIP.connect, then the
\* supervisor spawn, in that order, and any failure aborts start: it returns
\* failure and no later step is performed (no NTRIP.connect after a serial
\* connect failure, the supervisor spawned only when every configured
\* endpoint connected).
C14_StartAborts ==
    StartLogged =>
        /\ Before("serial.connect", "ntrip.connect")
        /\ Before("serial.connect", "monitor.spawn")
        /\ Before("ntrip.connect", "monitor.spawn")
        /\ (StepFailed("serial.connect") => ~HasStep("ntrip.connect"))
        /\ (HasStep("monitor.spawn")
               <=> ~StepFailed("serial.connect") /\ ~StepFailed("ntrip.connect"))
        /\ (startResult = "False"
               <=> StepFailed("serial.connect") \/ StepFailed("ntrip.connect"))

\* C22: start() refuses to start when configuration is missing: on a
\* mediator with no serial endpoint or no NTRIP endpoint configured it
\* returns failure, leaves is_running false and spawns no supervisor.
C22_StartRefusesUnconfigured ==
    (StartLogged /\ (~serialConfigured \/ ntripKind = "none")) =>
        /\ startResult = "False"
        /\ ~is_running
        /\ ~HasStep("monitor.spawn")
        /\ monitor_thread = "none"

\* C15: after a start() that failed because one endpoint could not connect,
\* an endpoint that had connected stays connected, its connected flag true
\* and its task running (as long as its own I/O does not end it), until
\* stop() is called, and a stop() after the failed start leaves it
\* disconnected: flag false, port and socket closed.
C15_ConnectedEndpointsStay ==
    /\ (StartLogged /\ caller = "idle" /\ startResult = "False") =>
          /\ (StepOk("serial.connect") =>
                 /\ serial_is_connected
                 /\ serial_conn = "open"
                 /\ (lastSerialIo /= "error" => read_thread = "alive"))
          /\ (StepOk("ntrip.connect") /\ lastNtripIo \notin {"eof", "error"} =>
                 /\ ntrip_is_connected
                 /\ (ntripKind = "real" => socket = "open")
                 /\ NtripTaskAlive)
    /\ (StopLogged /\ startResult = "False") =>
          /\ ~serial_is_connected
          /\ ~ntrip_is_connected
          /\ serial_conn /= "open"
          /\ socket /= "open"
          /\ read_thread /= "alive"

\* a stop() has returned after a start() that had opened the port and been
\* refused by the caster; the reader had read data in between
C15_Witness ==
    /\ StopLogged
    /\ startResult = "False"
    /\ HasStep("serial.disconnect")
    /\ serial_conn = "closed"
    /\ read_thread = "finished"
    /\ lastSerialIo = "data"
    /\ ntripKind = "real"
    /\ ~ntrip_is_connected

\* C16: stop() tears down in the reverse of the start order: the supervisor
\* is stopped first, then the NTRIP endpoint is disconnected, then the
\* serial endpoint.
C16_StopReverseOrder ==
    StopLogged =>
        /\ lifeLog[1].step = "monitor.stop"
        /\ Before("monitor.stop", "ntrip.disconnect")
        /\ Before("ntrip.disconnect", "serial.disconnect")

\* what a stop() is to leave behind
Stopped ==
    /\ ~is_running
    /\ ~serial_is_connected
    /\ ~ntrip_is_connected
    /\ monitor_thread /= "alive"

\* C17: stop() is idempotent: called twice in a row, or on a mediator that
\* was never started, it raises no error and leaves what one stop() leaves:
\* is_running false, both connected flags false, no supervisor running.  No
\* step of a further stop() changes any of these.
C17_StopIdempotent ==
    /\ [](~raised)
    /\ [](StopLogged => Stopped)
    /\ [][(quiet /\ quiet') => (Stopped /\ Stopped')]_vars

\* the second of two stop() calls on a started mediator is at its last
\* join: the first has returned (quiet), the port and the socket are closed
C17_Witness ==
    /\ quiet
    /\ caller = "join_ntrip"
    /\ started
    /\ serial_conn = "closed"
    /\ socket = "closed"
    /\ monitor_thread = "finished"

\* a task has its stop flag set
MonitorAsked == monitor_stop_event /\ monitor_thread = "alive"

ReaderAsked == serial_stop_event /\ read_thread = "alive"

NtripAsked == ntrip_stop_event /\ NtripTaskAlive

\* C18: stop is cooperative and terminates: once stop() is called the
\* supervisor, the serial reader and the NTRIP receiver (or the mock sender)
\* each come to an end, stop() returns, having waited no longer than three
\* joins of 2 seconds, and an I/O timeout (socket.timeout, or a serial read
\* that finds nothing) never ends a task that has not been asked to stop.
C18_StopTerminates ==
    /\ (caller /= "idle") ~> (caller = "idle")
    /\ MonitorAsked ~> (monitor_thread = "finished")
    /\ ReaderAsked ~> (read_thread = "finished")
    /\ NtripAsked ~> ~NtripTaskAlive
    /\ [](stopTicks <= 3 * JoinTimeout * TicksPerSecond)
    /\ [](joinLeft <= JoinTimeout * TicksPerSecond)
    /\ [][(receive_thread = "receiving" /\ receive_thread' /= "receiving"
             /\ lastNtripIo' = "timeout")
          => (receive_thread' = "testing" /\ ntrip_is_connected' = ntrip_is_connected)]_vars
    /\ [][(receive_thread = "testing" /\ receive_thread' = "finished")
          => (ntrip_stop_event \/ ~ntrip_is_connected)]_vars
    /\ [][(read_thread = "alive" /\ read_thread' = "finished")
          => (serial_stop_event \/ ~serial_is_connected \/ lastSerialIo' = "error")]_vars
    /\ [][(mock_thread = "alive" /\ mock_thread' = "finished") => ntrip_stop_event]_vars
    /\ [][(monitor_thread = "alive" /\ monitor_thread' = "finished")
          => monitor_stop_event]_vars

\* a stop() has returned whose joins had to wait; the receiver had gone
\* through a socket.timeout and ended only at its loop test afterwards
C18_Witness ==
    /\ StopLogged
    /\ stopTicks > 0
    /\ monitor_thread = "finished"
    /\ read_thread = "finished"
    /\ receive_thread = "finished"
    /\ lastNtripIo = "timeout"

-----------------------------------------------------------------------------
(* Properties of the position sink *)

\* the call of handle_position made in this step
Handled(fix) == lastHandled'.n = lastHandled.n + 1 /\ lastHandled'.fix = fix

-----------------------------------------------------------------------------
(* Properties of the fix records *)

\* C23: current_position is written by the serial task only, and a reader
\* that calls get_position() from another thread at any moment gets a
\* coherent snapshot: every field it reads comes from one completed parser
\* update, never a mix of the fields before and after an RMC or GLL update
\* that runs beside it.
C23_CoherentSnapshot == reader_copy /= None => reader_copy \in completed

\* C29: a fix record is immutable once emitted: after it was passed to a
\* handler, forwarded to the sink or returned by get_position(), parsing
\* later sentences changes none of its fields.
C29_EmittedImmutable == \A e \in emitted : heap[e.id] = e.was

-----------------------------------------------------------------------------
(* Properties of sentences with a field out of range, unparsable or missing *)

NorthSouth == {<<"N">>, <<"S">>}
EastWest == {<<"E">>, <<"W">>}

\* the value of a field, zero where it cannot be read
IntOrZero(f) == IF IntField(f).ok THEN IntField(f).v ELSE 0
FloatOrZero(f) == IF FloatField(f).ok THEN FloatField(f).v ELSE DecZero
CoordinateOrZero(coord, hemisphere, letters) ==
    IF WellFormedCoordinate(coord, hemisphere, letters)
    THEN ExpectedArcMinutes(coord, hemisphere)
    ELSE DecZero

\* the position, satellites, HDOP, altitude, age and station id of the fix
\* are those of the GGA's fields, zero for a field that cannot be read
TakenFromGga(fix, f) ==
    /\ fix.latitude = CoordinateOrZero(f[3], f[4], NorthSouth)
    /\ fix.longitude = CoordinateOrZero(f[5], f[6], EastWest)
    /\ fix.satellites_used = IntOrZero(f[8])
    /\ fix.hdop = FloatOrZero(f[9])
    /\ fix.altitude = FloatOrZero(f[10])
    /\ fix.age = FloatOrZero(f[14])
    /\ fix.stn_id = IntOrZero(f[15])

\* a GGA of 15 fields with a time of day and hemisphere letters
GgaShaped(f) ==
    /\ Len(f) >= 15
    /\ TimeOfDay(f[2]).ok
    /\ f[4] \in NorthSouth /\ f[6] \in EastWest

\* the numeric fields of a GGA that cannot be read
UnparsableGga(f) ==
    {k \in {8, 15} : ~IntField(f[k]).ok}
        \cup {k \in {9, 10, 14} : ~FloatField(f[k]).ok}
        \cup {k \in {3} : ~WellFormedCoordinate(f[3], f[4], NorthSouth)}
        \cup {k \in {5} : ~WellFormedCoordinate(f[5], f[6], EastWest)}

\* C25: for a GGA whose quality field is an integer outside 0..8, greater
\* than 8 or negative, the produced fix has quality INVALID (0) and its
\* other fields are those of the sentence.
C25_OutOfRangeQualityInvalid ==
    \A i \in 1..Len(lastLines) :
        LET rec == lastLines[i]
            f == FieldsOf(rec.line)
        IN ( /\ ParsedAs(rec, GGA)
             /\ GgaShaped(f)
             /\ UnparsableGga(f) = {}
             /\ ParseInt(f[7]).ok
             /\ ParseInt(f[7]).v \notin 0..MaxFixQuality )
           => /\ rec.result /= None
              /\ rec.result = rec.after.position
              /\ rec.result.fix_quality = 0
              /\ TakenFromGga(rec.result, f)

\* an RMC of 12 fields with status 'A', a date and time and hemisphere letters
RmcShaped(f) ==
    /\ Len(f) >= 12
    /\ f[3] = <<"A">>
    /\ RmcTimestamp(f[10], f[2], 0).ok
    /\ f[5] \in NorthSouth /\ f[7] \in EastWest

\* the numeric fields of an RMC that cannot be read
UnparsableRmc(f) ==
    {k \in {8, 9} : ~FloatField(f[k]).ok}
        \cup {k \in {4} : ~WellFormedCoordinate(f[4], f[5], NorthSouth)}
        \cup {k \in {6} : ~WellFormedCoordinate(f[6], f[7], EastWest)}

\* a GLL of 7 fields with a time of day and hemisphere letters
GllShaped(f) ==
    /\ Len(f) >= 7
    /\ TimeOfDay(f[6]).ok
    /\ f[3] \in NorthSouth /\ f[5] \in EastWest

\* the numeric fields of a GLL that cannot be read
UnparsableGll(f) ==
    {k \in {2} : ~WellFormedCoordinate(f[2], f[3], NorthSouth)}
        \cup {k \in {4} : ~WellFormedCoordinate(f[4], f[5], EastWest)}

\* C26: when exactly one numeric field of a checksum-valid GGA, RMC or GLL
\* cannot be parsed, the parser still returns a fix built from the
\* sentence's other fields, with the unparsable field zero: the GGA's fix
\* has the sentence's quality, position, satellites, HDOP, altitude, age and
\* station id, the RMC's its position, speed and course, the GLL's its
\* position.
C26_OneBadFieldIsZero ==
    \A i \in 1..Len(lastLines) :
        LET rec == lastLines[i]
            f == FieldsOf(rec.line)
        IN /\ ( /\ ParsedAs(rec, GGA)
                /\ GgaShaped(f)
                /\ ParseInt(f[7]).ok /\ ParseInt(f[7]).v \in 0..MaxFixQuality
                /\ Cardinality(UnparsableGga(f)) = 1 )
              => /\ rec.result /= None
                 /\ rec.result = rec.after.position
                 /\ rec.result.fix_quality = ParseInt(f[7]).v
                 /\ TakenFromGga(rec.result, f)
           /\ ( /\ ParsedAs(rec, RMC)
                /\ RmcShaped(f)
                /\ Cardinality(UnparsableRmc(f)) = 1 )
              => /\ rec.result /= None
                 /\ rec.result = rec.after.position
                 /\ rec.result.latitude = CoordinateOrZero(f[4], f[5], NorthSouth)
                 /\ rec.result.longitude = CoordinateOrZero(f[6], f[7], EastWest)
                 /\ rec.result.speed = DecMul(FloatOrZero(f[8]), KnotsToKmh)
                 /\ rec.result.course = FloatOrZero(f[9])
           /\ ( /\ ParsedAs(rec, GLL)
                /\ GllShaped(f)
                /\ Cardinality(UnparsableGll(f)) = 1 )
              => /\ rec.result /= None
                 /\ rec.result = rec.after.position
                 /\ rec.result.latitude = CoordinateOrZero(f[2], f[3], NorthSouth)
                 /\ rec.result.longitude = CoordinateOrZero(f[4], f[5], EastWest)

\* the least number of fields the decoder of a type asks for
MinFields(type) == IF type = GGA THEN 15 ELSE IF type = RMC THEN 12 ELSE 7

\* a checksum-valid sentence of an enabled, supported type with too few fields
TooShort(rec) ==
    /\ rec.via /= "filtered"
    /\ WellChecksummed(Strip(rec.line))
    /\ TypeOf(rec.line) \in enabled_messages \cap {GGA, RMC, GLL}
    /\ Len(FieldsOf(rec.line)) < MinFields(TypeOf(rec.line))

\* C27: a checksum-valid GGA with fewer than 15 fields, RMC with fewer than
\* 12 or GLL with fewer than 7 is dropped as a unit: no handler is invoked
\* for it, no fix goes to the sink, nothing is uplinked, last_gga_time is
\* not stamped, and the sentence after it is processed from the state it
\* left.
C27_MalformedDropped ==
    /\ \A i \in 1..Len(lastLines) :
          TooShort(lastLines[i]) =>
              /\ lastLines[i].handlers = <<>>
              /\ lastLines[i].sink = <<>>
              /\ lastLines[i].uplink = <<>>
              /\ lastLines[i].after.last_gga_time = lastLines[i].before.last_gga_time
    /\ \A i \in 2..Len(lastLines) : lastLines[i].before = lastLines[i - 1].after
    /\ Find(nmea_buffer, "\n") = 0

\* C30: parsing a GGA changes only the rolling fix's position, altitude,
\* quality, satellites, HDOP, age, station id and timestamp: the speed and
\* course an earlier RMC merged into the rolling fix are those of the fix a
\* later GGA produces.
C30_GgaKeepsSpeedCourse ==
    \A i \in 1..Len(lastLines) :
        LET rec == lastLines[i]
            f == FieldsOf(rec.line)
        IN (ParsedAs(rec, GGA) /\ WellFormedGga(f)) =>
              /\ rec.result /= None
              /\ rec.result.speed = rec.before.position.speed
              /\ rec.result.course = rec.before.position.course

-----------------------------------------------------------------------------
(* Properties of the NMEA accumulator *)

\* what follows the last newline of the text, all of it when there is none
AfterLastNewline(text) ==
    IF \E k \in 1..Len(text) : text[k] = "\n"
    THEN LET last == CHOOSE k \in 1..Len(text) :
                         text[k] = "\n" /\ \A j \in (k + 1)..Len(text) : text[j] /= "\n"
         IN SubSeq(text, last + 1, Len(text))
    ELSE text

\* the trailing n characters
Trailing(text, n) == SubSeq(text, Len(text) - n + 1, Len(text))

\* what a call with the chunk leaves in the accumulator
Remainder(old, data) == AfterLastNewline(old \o DecodeAscii(data))

\* C28: after every call of _on_serial_data the accumulator contains no
\* newline and at most 10 000 characters; a remainder of more than 10 000
\* characters without a newline is cut to its trailing 5 000 characters, any
\* other remainder is kept whole.
C28_AccumulatorBounded ==
    /\ [](Find(nmea_buffer, "\n") = 0 /\ Len(nmea_buffer) <= NmeaBufferLimit)
    /\ [][\E data \in BufferChunks :
              nmea_buffer' =
                  IF Len(Remainder(nmea_buffer, data)) > NmeaBufferLimit
                  THEN Trailing(Remainder(nmea_buffer, data), NmeaBufferKeep)
                  ELSE Remainder(nmea_buffer, data)]_vars

\* the accumulator is the trailing 5 000 characters of an overrun: a run of
\* 'A' comes in 5 001 at a time, so 5 000 of them are what a cut has left
C28_Witness ==
    /\ Len(nmea_buffer) = NmeaBufferKeep
    /\ nmea_buffer[1] = "A"
    /\ nmea_buffer[NmeaBufferKeep] = "A"

-----------------------------------------------------------------------------
(* Properties of the RTCM accumulator *)

\* the longest payload a header can declare: ten bits
MaxDeclaredLength == 1023

\* C39: after every return of parse_message the accumulator holds fewer than
\* 3 bytes, or it starts with 0xD3 and holds strictly fewer bytes than the
\* L + 6 its header declares; so it never holds more than 1028 bytes.
C39_RtcmAccumulatorBounded ==
    /\ \/ Len(buffer) < 3
       \/ buffer[1] = SyncByte /\ Len(buffer) < FrameLength(buffer) + 6
    /\ Len(buffer) < MaxDeclaredLength + 6

\* the accumulator waits with a whole header and part of a frame, after
\* bytes in front of the sync byte have been discarded
C39_Witness ==
    /\ Len(buffer) >= 3
    /\ buffer[1] = SyncByte
    /\ Len(parserIn) > Len(buffer)
    /\ parserIn[1] /= SyncByte
    /\ lastMsgs = <<>>

\* the accumulator from its first sync byte on: what the parser still looks at
Pending(buf) == IF FindSync(buf) = 0 THEN <<>> ELSE SubSeq(buf, FindSync(buf), Len(buf))

\* parse_message on a fresh parser, given all the bytes in one call
Whole(stream) == parse_message(<<>>, stream)

\* C40: RTCM framing does not depend on chunk boundaries: the frames every
\* call surfaces continue the sequence of frames (types, lengths, payloads)
\* that one call with the whole stream surfaces, the statistics are those of
\* that sequence, and the bytes still waiting from the first sync byte on
\* are the same.
C40_ChunkIndependent ==
    /\ [](rtcm_stats = CountMessages(Whole(parserIn).messages, 1, <<>>))
    /\ [](Pending(buffer) = Pending(Whole(parserIn).buffer))
    /\ [][parserIn' /= parserIn =>
             Whole(parserIn').messages = Whole(parserIn).messages \o lastMsgs']_vars

\* one frame has been sent and a chunk boundary fell inside it: part of it
\* waits in the accumulator, the rest is still on the wire
C40_Witness ==
    /\ nSent = 1
    /\ lastPiece = Frame1077
    /\ buffer /= <<>>
    /\ wire /= <<>>
    /\ buffer \o wire = Frame1077

-----------------------------------------------------------------------------
(* Properties of the base-station handler *)

\* the messages of type 1005 among those a call surfaced, in order
RECURSIVE Only1005(_, _)
Only1005(msgs, i) ==
    IF i > Len(msgs) THEN <<>>
    ELSE (IF msgs[i].type = 1005 THEN <<msgs[i]>> ELSE <<>>) \o Only1005(msgs, i + 1)

\* the 38 bits from the offset on, most significant first; a two's-complement
\* number of 38 bits is in -2^37 .. 2^37-1 whatever the bits are
FieldBits(payload, offset) == [i \in 1..38 |-> PayloadBit(payload, offset + i - 1)]

\* C35: every CRC-valid frame of type 1005 makes the handler emit exactly one
\* base-kind fix to the position sink, with ECEF x, y and z the signed 38-bit
\* fields at payload bit offsets 34, 74 and 114; frames of every other type
\* emit none.
C35_Base1005 ==
    [][parserIn' /= parserIn =>
          LET heard == Only1005(lastMsgs', 1) IN
          /\ Len(baseFixes') = Len(baseFixes) + Len(heard)
          /\ \A i \in 1..Len(heard) :
                LET fix == baseFixes'[Len(baseFixes) + i] IN
                /\ fix.type = "BASE"
                /\ fix.x_bits = FieldBits(heard[i].data, 34)
                /\ fix.y_bits = FieldBits(heard[i].data, 74)
                /\ fix.z_bits = FieldBits(heard[i].data, 114)]_vars

-----------------------------------------------------------------------------
(* Properties of the mock sender *)

\* C34: MockNTRIPClient._calculate_crc24 computes the value RTCMParser.crc24
\* computes on every input; the frame the mock sender emits has 10 bytes and
\* a CRC the decoder accepts, and each emitted frame given to parse_message
\* surfaces exactly one frame, of payload length 4, and leaves the
\* accumulator empty.
C34_MockFramesValid ==
    /\ [](calculate_crc24(lastPiece) = crc24(lastPiece))
    /\ [](Len(MockFrame) = 10 /\ ~CrcMismatch(MockFrame))
    /\ [][parserIn' /= parserIn =>
             /\ Len(lastMsgs') = 1
             /\ lastMsgs'[1].frame = MockFrame
             /\ lastMsgs'[1].length = 4
             /\ Len(lastMsgs'[1].data) = 4
             /\ buffer' = <<>>]_vars

\* two mock frames have gone through the decoder and the checksum routines
\* were given the seven bytes the mock's CRC covers
C34_Witness ==
    /\ nSent = MaxMockFrames
    /\ Len(parserIn) = 10 * MaxMockFrames
    /\ lastPiece = MockHeaderPayload
    /\ lastMsgs /= <<>>

-----------------------------------------------------------------------------
(* Properties of the coordinate conversion *)

\* C37: utm_to_wgs84 applied to the result of wgs84_to_utm gives back the
\* latitude and longitude it started from, with their signs, in both
\* hemispheres.
C37_UtmRoundTrip ==
    utm_in /= NoPair => utm_out = utm_in

-----------------------------------------------------------------------------
(* Properties of SerialCommunicator's failures *)

\* start() called serial.connect() and it failed
SerialOpenFailed ==
    \E i \in 1..Len(lifeLog) : lifeLog[i] = Step("serial.connect", FALSE)

\* SerialCommunicator.disconnect() has been entered in the stop() under way
SerialDisconnecting ==
    \E i \in 1..Len(lifeLog) : lifeLog[i] = Step("serial.disconnect", TRUE)

\* C31: when opening the port fails, connect() reports failure, the flag is
\* false and there is no reader task; when a read raises, the reader ends
\* with the flag still true, and the flag goes from true to false only in
\* disconnect().
C31_SerialFailures ==
    /\ [](SerialOpenFailed =>
             /\ startResult = "False"
             /\ ~serial_is_connected
             /\ read_thread = "none")
    /\ [][(read_thread = "alive" /\ read_thread' = "finished" /\ lastSerialIo' = "error"
           /\ ~serial_stop_event /\ serial_is_connected)
          => serial_is_connected']_vars
    /\ [][(serial_is_connected /\ ~serial_is_connected')
          => (SerialDisconnecting /\ caller = "join_serial")]_vars

C31_Witness ==
    /\ read_thread = "finished"
    /\ lastSerialIo = "error"
    /\ serial_is_connected
    /\ ~serial_stop_event
    /\ caller = "idle"

-----------------------------------------------------------------------------
(* Properties of the NTRIP handshake *)

\* C32: connect() succeeds exactly when the bytes of its first read contain
\* '200 OK', whatever else they contain; otherwise it returns failure, the
\* flag stays false and there is no receiver task.
C32_HandshakeBySubstring ==
    connect_result /= "none" =>
        /\ (connect_result = "True") = Within(Encode(Ok200), response)
        /\ (connect_result = "False" =>
               ~ntrip_is_connected /\ receive_thread = "none")

-----------------------------------------------------------------------------
(* Properties of the receiver loop and the uplink *)

\* recv has returned in this step
RecvReturned(how) ==
    receive_thread = "receiving" /\ receive_thread' /= "receiving" /\ lastNtripIo' = how

\* the lines written while is_connected was false
LateWrites(t) ==
    {i \in 1..Len(uplink_log) : uplink_log[i].by = t /\ ~uplink_log[i].connected}

\* C33 as stated: a socket timeout neither ends the receiver loop nor clears
\* the flag; an empty read ends the loop and clears the flag, and no GGA is
\* written to the socket once the flag is cleared.
C33_NoGgaAfterEof ==
    /\ [][RecvReturned("timeout") =>
             receive_thread' = "testing" /\ ntrip_is_connected' = ntrip_is_connected]_vars
    /\ [][RecvReturned("eof") =>
             receive_thread' = "finished" /\ ~ntrip_is_connected']_vars
    /\ [](\A t \in UplinkCallers : LateWrites(t) = {})

\* C33 amended: the receiver as above; a send_gga that tests the flag once
\* it is cleared returns without writing, and a send_gga already past its
\* test writes its one line.
C33_NoSendStartsAfterEof ==
    /\ [][RecvReturned("timeout") =>
             receive_thread' = "testing" /\ ntrip_is_connected' = ntrip_is_connected]_vars
    /\ [][RecvReturned("eof") =>
             receive_thread' = "finished" /\ ~ntrip_is_connected']_vars
    /\ [][\A t \in UplinkCallers :
             (uplink_pc[t] = "out" /\ uplink_pc'[t] = "checked") => ntrip_is_connected]_vars
    /\ [][uplink_log' /= uplink_log =>
             \E t \in UplinkCallers : uplink_pc[t] = "checked" /\ uplink_pc'[t] = "out"]_vars
    /\ [](\A t \in UplinkCallers : Cardinality(LateWrites(t)) <= 1)

C33_Witness ==
    /\ lastNtripIo = "eof"
    /\ receive_thread = "finished"
    /\ ~ntrip_is_connected
    /\ LateWrites("handler") /= {}
    /\ uplink_pc["supervisor"] = "out"

-----------------------------------------------------------------------------
(* Properties of raising handlers and callbacks *)

\* the message numbers of the frames cut in the deliveries so far
RECURSIVE FramesCut(_, _)
FramesCut(log, i) ==
    IF i > Len(log) THEN <<>> ELSE log[i].frames \o FramesCut(log, i + 1)

\* C36: whatever bytes arrive and whichever registered handlers and byte
\* callbacks raise, no exception reaches the endpoint loops and both tasks
\* stay alive; every complete line the serial reader has received has been
\* taken from the accumulator, and the frames the RTCM parser has cut
\* together with those still in its buffer are the frames of the stream.
C36_ParserErrorsContained ==
    /\ \A i \in 1..Len(fault_log) : ~fault_log[i].escaped
    /\ read_thread = "alive"
    /\ receive_thread = "receiving"
    /\ Find(nmea_buffer, "\n") = 0
    /\ FramesCut(fault_log, 1) \o Types(ParseLoop(buffer, <<>>).messages)
          = Types(Whole(parserIn).messages)

\* a GGA callback raised and the RMC behind it in the same read was
\* parsed; an RTCM callback raised and the next read gave a frame
C36_Witness ==
    /\ Len(fault_log) = 3
    /\ fault_log[1].task = "ntrip" /\ fault_log[1].raised > 0
    /\ fault_log[2].task = "ntrip" /\ fault_log[2].frames /= <<>>
    /\ fault_log[3].task = "serial" /\ fault_log[3].raised > 0
    /\ Len(lastLines) = 2
    /\ lastLines[1].via = "raised"
    /\ lastLines[2].via = "serial" /\ lastLines[2].result /= None

-----------------------------------------------------------------------------
(* Properties of the number of tasks *)

LiveReaders == orphan_readers + LeftRunning(read_thread = "alive")

LiveReceivers == orphan_receivers + LeftRunning(NtripTaskAlive)

LiveMonitors == orphan_monitors + LeftRunning(monitor_thread = "alive")

\* C38: whatever the order of the start() and stop() calls, at most one
\* serial reader, at most one NTRIP receiver or mock sender and at most one
\* supervisor are running.
C38_OneTaskEach ==
    /\ LiveReaders <= 1
    /\ LiveReceivers <= 1
    /\ LiveMonitors <= 1

====
